---- MODULE Spec2Model ----
(***************************************************************************)
(* B+Tree index of BadgerDB (src/src/btree.cpp, btree.h).                  *)
(*                                                                         *)
(* Pages are modelled as records.  A leaf page has keyArray and ridArray   *)
(* indexed 0..leafOccupancy-1 and rightSibPageNo; a non-leaf page has      *)
(* level, keyArray indexed 0..nodeOccupancy-1 and pageNoArray indexed      *)
(* 0..nodeOccupancy.  A RecordId is represented by its page_number (0 is   *)
(* the empty-slot marker); insertEntry number n carries the RecordId n.    *)
(* The buffer manager is represented by the pin count of every page.       *)
(* file tells whether the BTreeIndex object exists ("open") or has been    *)
(* destroyed ("deleted"); the index file itself (pages, metaRootPageNo)    *)
(* and the pins the buffer manager holds outlive the object.  probe holds  *)
(* the arguments and the result of a direct call of a helper function.     *)
(* relation is the sequence of keys of the tuples of the base relation, in  *)
(* the order the FileScan of the constructor yields them.                   *)
(***************************************************************************)
EXTENDS Integers, Sequences, FiniteSets, TLC

\* Node capacities (INTARRAYLEAFSIZE = 682 and INTARRAYNONLEAFSIZE = 1023
\* for 8 KB pages), scaled down so that leaf and internal splits happen.
\* The constructor copies them into the members leafOccupancy and
\* nodeOccupancy, which every other function reads.
INTARRAYLEAFSIZE == 2
INTARRAYNONLEAFSIZE == 3

\* Number of insertEntry calls explored.
MaxInserts == 7

\* Largest number of entries of an index on which a scan is explored, and
\* on which sequences of several scans are explored.
MaxScanInserts == 5
MaxRescanInserts == 1

\* Largest number of entries of an index that is closed and opened again.
MaxLifeInserts == 3

\* A reopened index is closed or scanned again only while no page has more
\* than this many pins (a scan that is active when the index is closed, and
\* a startScan that ends with an error of the buffer manager, leave a pin
\* behind, so the pin counts grow with every such cycle).
MaxPinCnt == 1

\* Largest number of tuples of the base relation the constructor loads.
MaxLoad == 7

\* Largest inserted key and scan bound; the smallest is -1, so that keys
\* lie on both sides of the zero a free slot holds.
MaxKey == 0
Keys == (0 - 1) .. MaxKey

\* The meta page is the first page of the file, the first root the second.
headerPageNum == 1

\* The index clears no page it allocates (the constructor writes only
\* rightSibPageNo of the root leaf, the splits and updateRootNode only the
\* slots they fill) and tests the other slots for 0.  The index is run on a
\* buffer manager whose allocPage hands out zero-filled pages.
FreshWord == 0

LowOps == {"GT", "GTE"}
HighOps == {"LT", "LTE"}
Operators == {"LT", "LTE", "GTE", "GT"}

VARIABLES pages, numPages, pinCnt, rootPageNum, initialRootPageNum,
          metaRootPageNo, scanExecuting, nextEntry, currentPageNum,
          lowValInt, highValInt, lowOp, highOp,
          inserted, emitted, lastCall, badUnpin, file, probe, relation,
          leafOccupancy, nodeOccupancy, dirtied

vars == <<pages, numPages, pinCnt, rootPageNum, initialRootPageNum,
          metaRootPageNo, scanExecuting, nextEntry, currentPageNum,
          lowValInt, highValInt, lowOp, highOp,
          inserted, emitted, lastCall, badUnpin, file, probe, relation,
          leafOccupancy, nodeOccupancy, dirtied>>

----------------------------------------------------------------------------
(* Page layouts (btree.h).                                                 *)

NoWords == [i \in {} |-> 0]

LeafNodeInt(keyArray, ridArray, rightSibPageNo) ==
  [kind |-> "leaf", level |-> 0, keyArray |-> keyArray, ridArray |-> ridArray,
   pageNoArray |-> NoWords, rightSibPageNo |-> rightSibPageNo]

NonLeafNodeInt(level, keyArray, pageNoArray) ==
  [kind |-> "nonleaf", level |-> level, keyArray |-> keyArray,
   ridArray |-> NoWords, pageNoArray |-> pageNoArray, rightSibPageNo |-> 0]

FreshLeaf ==
  LeafNodeInt([i \in 0 .. leafOccupancy - 1 |-> FreshWord],
              [i \in 0 .. leafOccupancy - 1 |-> FreshWord], FreshWord)

FreshNonLeaf ==
  NonLeafNodeInt(FreshWord, [i \in 0 .. nodeOccupancy - 1 |-> FreshWord],
                 [i \in 0 .. nodeOccupancy |-> FreshWord])

\* Store into keyArray[i] of a non-leaf page.  The struct is
\* { int level; int keyArray[N]; PageId pageNoArray[N+1]; } with 4-byte
\* members, so index N is the word of pageNoArray[0] and index -1 the word
\* of level.
SetKey(node, i, v) ==
  IF i = nodeOccupancy THEN [node EXCEPT !.pageNoArray[0] = v]
  ELSE IF i = -1 THEN [node EXCEPT !.level = v]
  ELSE [node EXCEPT !.keyArray[i] = v]

\* Load of pageNoArray[i]; index -1 is the word of keyArray[N-1].
GetPageNo(node, i) ==
  IF i = -1 THEN node.keyArray[nodeOccupancy - 1] ELSE node.pageNoArray[i]

\* No helper function has been called directly.
NoProbe == [fn |-> "", key |-> 0, result |-> FALSE]

PageKeyPair(pageNo, key) == [null |-> FALSE, pageNo |-> pageNo, key |-> key]
nullptr == [null |-> TRUE, pageNo |-> 0, key |-> 0]

----------------------------------------------------------------------------
(* Buffer manager: pin counts and page allocation.                         *)

\* The part of the state the insert path works on.
Machine ==
  [pages |-> pages, numPages |-> numPages, pinCnt |-> pinCnt,
   rootPageNum |-> rootPageNum, metaRootPageNo |-> metaRootPageNo,
   badUnpin |-> badUnpin, err |-> "", dirty |-> {}]

\* readPage pins an existing page; a page number outside the file is an
\* error of the buffer manager that propagates to the caller.
readPage(m, p) ==
  IF p \in 1 .. m.numPages
  THEN [m EXCEPT !.pinCnt[p] = @ + 1]
  ELSE [m EXCEPT !.err = "InvalidPage"]

\* unPinPage(file, p, false)
unPinPage(m, p) ==
  IF m.pinCnt[p] > 0
  THEN [m EXCEPT !.pinCnt[p] = @ - 1]
  ELSE [m EXCEPT !.badUnpin = TRUE]

\* unPinPage(file, p, true): the page is marked dirty as well.
unPinDirty(m, p) ==
  IF m.pinCnt[p] > 0
  THEN [m EXCEPT !.pinCnt[p] = @ - 1, !.dirty = @ \cup {p}]
  ELSE [m EXCEPT !.badUnpin = TRUE]

\* allocPage appends a page to the file and pins it; fresh is its content
\* seen through the struct the caller casts it to.
allocPage(m, fresh) ==
  [m EXCEPT !.numPages = @ + 1,
            !.pinCnt = @ @@ ((m.numPages + 1) :> 1),
            !.pages = @ @@ ((m.numPages + 1) :> fresh)]

----------------------------------------------------------------------------
(* Tree navigator and node mutators.                                       *)

\* while(i >= 0 && pageNoArray[i] == 0) i--;  started at i = nodeOccupancy
RECURSIVE LastPageSlot(_, _)
LastPageSlot(node, i) ==
  IF i >= 0 /\ node.pageNoArray[i] = 0 THEN LastPageSlot(node, i - 1) ELSE i

\* while(i > 0 && keyArray[i-1] >= key) i--;
RECURSIVE StepLeft(_, _, _)
StepLeft(node, i, key) ==
  IF i > 0 /\ node.keyArray[i - 1] >= key THEN StepLeft(node, i - 1, key) ELSE i

findNextNonLeafNode(curNode, key) ==
  GetPageNo(curNode, StepLeft(curNode, LastPageSlot(curNode, nodeOccupancy), key))

\* while(i >= 0 && ridArray[i].page_number == 0) i--;
RECURSIVE LastRidSlot(_, _)
LastRidSlot(leaf, i) ==
  IF i >= 0 /\ leaf.ridArray[i] = 0 THEN LastRidSlot(leaf, i - 1) ELSE i

\* for(; i >= 0 && keyArray[i] > entry.key; i--) shift right; then store.
RECURSIVE ShiftLeaf(_, _, _)
ShiftLeaf(leaf, i, entry) ==
  IF i >= 0 /\ leaf.keyArray[i] > entry.key
  THEN ShiftLeaf([leaf EXCEPT !.keyArray[i + 1] = leaf.keyArray[i],
                              !.ridArray[i + 1] = leaf.ridArray[i]], i - 1, entry)
  ELSE [leaf EXCEPT !.keyArray[i + 1] = entry.key, !.ridArray[i + 1] = entry.rid]

\* insertLeafNode without the shift loop: the entry goes behind the last
\* present entry.
\* insertLeafNode with the new entry placed in front of the entries with the
\* same key (the shift of l.249 taken with >=).
insertLeafNode_BeforeEqual(cur_leaf, entry) ==
  LET n == LastRidSlot(cur_leaf, leafOccupancy - 1) + 1
      at == Cardinality({i \in 0 .. n - 1 : cur_leaf.keyArray[i] < entry.key})
      Put(arr, x) == [i \in DOMAIN arr |->
                        IF i < at THEN arr[i]
                        ELSE IF i = at THEN x
                        ELSE IF i <= n THEN arr[i - 1] ELSE arr[i]]
  IN [cur_leaf EXCEPT !.keyArray = Put(@, entry.key),
                      !.ridArray = Put(@, entry.rid)]

insertLeafNode_AtTail(cur_leaf, entry) ==
  IF cur_leaf.ridArray[0] = 0
  THEN [cur_leaf EXCEPT !.keyArray[0] = entry.key, !.ridArray[0] = entry.rid]
  ELSE LET i == LastRidSlot(cur_leaf, leafOccupancy - 1)
       IN [cur_leaf EXCEPT !.keyArray[i + 1] = entry.key, !.ridArray[i + 1] = entry.rid]

insertLeafNode(cur_leaf, entry) ==
  IF cur_leaf.ridArray[0] = 0
  THEN [cur_leaf EXCEPT !.keyArray[0] = entry.key, !.ridArray[0] = entry.rid]
  ELSE ShiftLeaf(cur_leaf, LastRidSlot(cur_leaf, leafOccupancy - 1), entry)

\* for(; i > 0 && keyArray[i-1] > entry->key; i--) shift right; then store.
RECURSIVE ShiftNonLeaf(_, _, _)
ShiftNonLeaf(node, i, entry) ==
  IF i > 0 /\ node.keyArray[i - 1] > entry.key
  THEN ShiftNonLeaf([SetKey(node, i, node.keyArray[i - 1])
                       EXCEPT !.pageNoArray[i + 1] = node.pageNoArray[i]],
                    i - 1, entry)
  ELSE [SetKey(node, i, entry.key) EXCEPT !.pageNoArray[i + 1] = entry.pageNo]

insertNonLeafNode(cur_nonleaf, entry) ==
  ShiftNonLeaf(cur_nonleaf, LastPageSlot(cur_nonleaf, nodeOccupancy), entry)

\* updateRootNode that leaves the meta page pinned.
updateRootNode_HeaderPinned(m, firstPage, newEntry) ==
  LET m1 == allocPage(m, FreshNonLeaf)
      newPageNumber == m1.numPages
      newRootPage ==
        [FreshNonLeaf EXCEPT
           !.level = IF initialRootPageNum = m.rootPageNum THEN 1 ELSE 0,
           !.pageNoArray[0] = firstPage,
           !.pageNoArray[1] = newEntry.pageNo,
           !.keyArray[0] = newEntry.key]
      m2 == readPage([m1 EXCEPT !.pages[newPageNumber] = newRootPage], headerPageNum)
      m3 == [m2 EXCEPT !.metaRootPageNo = newPageNumber, !.rootPageNum = newPageNumber]
  IN unPinDirty(m3, newPageNumber)

\* updateRootNode that changes rootPageNum and not the meta page.
updateRootNode_MetaStale(m, firstPage, newEntry) ==
  LET m1 == allocPage(m, FreshNonLeaf)
      newPageNumber == m1.numPages
      newRootPage ==
        [FreshNonLeaf EXCEPT
           !.level = IF initialRootPageNum = m.rootPageNum THEN 1 ELSE 0,
           !.pageNoArray[0] = firstPage,
           !.pageNoArray[1] = newEntry.pageNo,
           !.keyArray[0] = newEntry.key]
      m2 == readPage([m1 EXCEPT !.pages[newPageNumber] = newRootPage], headerPageNum)
      m3 == [m2 EXCEPT !.rootPageNum = newPageNumber]
  IN unPinDirty(unPinDirty(m3, headerPageNum), newPageNumber)

\* updateRootNode with the level of the new root always set to 1 (the test
\* of l.412 taken as true).
updateRootNode_LevelOne(m, firstPage, newEntry) ==
  LET m1 == allocPage(m, FreshNonLeaf)
      newPageNumber == m1.numPages
      newRootPage ==
        [FreshNonLeaf EXCEPT
           !.level = 1,
           !.pageNoArray[0] = firstPage,
           !.pageNoArray[1] = newEntry.pageNo,
           !.keyArray[0] = newEntry.key]
      m2 == readPage([m1 EXCEPT !.pages[newPageNumber] = newRootPage], headerPageNum)
      m3 == [m2 EXCEPT !.metaRootPageNo = newPageNumber, !.rootPageNum = newPageNumber]
  IN unPinDirty(unPinDirty(m3, headerPageNum), newPageNumber)

\* updateRootNode that unpins the meta page with dirty = false.
updateRootNode_MetaClean(m, firstPage, newEntry) ==
  LET m1 == allocPage(m, FreshNonLeaf)
      newPageNumber == m1.numPages
      newRootPage ==
        [FreshNonLeaf EXCEPT
           !.level = IF initialRootPageNum = m.rootPageNum THEN 1 ELSE 0,
           !.pageNoArray[0] = firstPage,
           !.pageNoArray[1] = newEntry.pageNo,
           !.keyArray[0] = newEntry.key]
      m2 == readPage([m1 EXCEPT !.pages[newPageNumber] = newRootPage], headerPageNum)
      m3 == [m2 EXCEPT !.metaRootPageNo = newPageNumber, !.rootPageNum = newPageNumber]
  IN unPinDirty(unPinPage(m3, headerPageNum), newPageNumber)

\* updateRootNode: a new internal page becomes the root.
updateRootNode(m, firstPage, newEntry) ==
  LET m1 == allocPage(m, FreshNonLeaf)
      newPageNumber == m1.numPages
      newRootPage ==
        [FreshNonLeaf EXCEPT
           !.level = IF initialRootPageNum = m.rootPageNum THEN 1 ELSE 0,
           !.pageNoArray[0] = firstPage,
           !.pageNoArray[1] = newEntry.pageNo,
           !.keyArray[0] = newEntry.key]
      m2 == readPage([m1 EXCEPT !.pages[newPageNumber] = newRootPage], headerPageNum)
      m3 == [m2 EXCEPT !.metaRootPageNo = newPageNumber, !.rootPageNum = newPageNumber]
  IN unPinDirty(unPinDirty(m3, headerPageNum), newPageNumber)

\* The loop that moves the upper entries of a full leaf to the new leaf.
RECURSIVE MoveLeaf(_, _, _, _)
MoveLeaf(leaf, newLeafNode, i, mid) ==
  IF i < leafOccupancy
  THEN MoveLeaf([leaf EXCEPT !.keyArray[i] = 0, !.ridArray[i] = 0],
                [newLeafNode EXCEPT !.keyArray[i - mid] = leaf.keyArray[i],
                                    !.ridArray[i - mid] = leaf.ridArray[i]],
                i + 1, mid)
  ELSE [leaf |-> leaf, newLeafNode |-> newLeafNode]

\* The split index without the adjustment for an odd capacity (l.354-357
\* left out).
LeafMid_Half(leaf, dataEntry) == leafOccupancy \div 2

\* The split index of splitLeafNode.
LeafMid(leaf, dataEntry) ==
  IF leafOccupancy % 2 = 1 /\ dataEntry.key > leaf.keyArray[leafOccupancy \div 2]
  THEN leafOccupancy \div 2 + 1
  ELSE leafOccupancy \div 2

\* splitLeafNode with the new entry always placed in the old leaf (the test
\* of l.369 taken as false).
SplitLeafPages_IntoOld(leaf0, newPageNumber, dataEntry) ==
  LET mid == LeafMid(leaf0, dataEntry)
      moved == MoveLeaf(leaf0, FreshLeaf, mid, mid)
  IN [leaf |-> [insertLeafNode(moved.leaf, dataEntry)
                  EXCEPT !.rightSibPageNo = newPageNumber],
      newLeafNode |-> [moved.newLeafNode
                         EXCEPT !.rightSibPageNo = leaf0.rightSibPageNo]]

\* splitLeafNode with the new leaf's number written into the new leaf's own
\* rightSibPageNo (l.380 applied to newLeafNode instead of leaf, l.379 left
\* out).
SplitLeafPages_SelfLinked(leaf0, newPageNumber, dataEntry) ==
  LET mid == LeafMid(leaf0, dataEntry)
      moved == MoveLeaf(leaf0, FreshLeaf, mid, mid)
      toNew == dataEntry.key > moved.leaf.keyArray[mid - 1]
      leaf1 == IF toNew THEN moved.leaf ELSE insertLeafNode(moved.leaf, dataEntry)
      new1 == IF toNew THEN insertLeafNode(moved.newLeafNode, dataEntry)
              ELSE moved.newLeafNode
  IN [leaf |-> leaf1,
      newLeafNode |-> [new1 EXCEPT !.rightSibPageNo = newPageNumber]]

\* The two leaves after the entries were moved, the new entry was placed
\* and the sibling pointers were updated; newPageNumber is the new leaf.
SplitLeafPages(leaf0, newPageNumber, dataEntry) ==
  LET mid == LeafMid(leaf0, dataEntry)
      moved == MoveLeaf(leaf0, FreshLeaf, mid, mid)
      toNew == dataEntry.key > moved.leaf.keyArray[mid - 1]
      leaf1 == IF toNew THEN moved.leaf ELSE insertLeafNode(moved.leaf, dataEntry)
      new1 == IF toNew THEN insertLeafNode(moved.newLeafNode, dataEntry)
              ELSE moved.newLeafNode
  IN [leaf |-> [leaf1 EXCEPT !.rightSibPageNo = newPageNumber],
      newLeafNode |-> [new1 EXCEPT !.rightSibPageNo = leaf0.rightSibPageNo]]

\* splitLeafNode; the result carries the entry handed to the parent.
splitLeafNode(m, leafPageNumber, dataEntry) ==
  LET m1 == allocPage(m, FreshLeaf)
      newPageNumber == m1.numPages
      halves == SplitLeafPages(m.pages[leafPageNumber], newPageNumber, dataEntry)
      newKeyPair == PageKeyPair(newPageNumber, halves.newLeafNode.keyArray[0])
      m2 == [m1 EXCEPT !.pages[leafPageNumber] = halves.leaf,
                       !.pages[newPageNumber] = halves.newLeafNode]
      m3 == unPinDirty(unPinDirty(m2, leafPageNumber), newPageNumber)
  IN [m |-> IF leafPageNumber = m.rootPageNum
            THEN updateRootNode(m3, leafPageNumber, newKeyPair)
            ELSE m3,
      newEntry |-> newKeyPair]

\* The index of the key that moves up in splitNonLeafNode.
MoveUpIndex(oldNode, newEntry) ==
  IF nodeOccupancy % 2 = 0
  THEN IF newEntry.key < oldNode.keyArray[nodeOccupancy \div 2]
       THEN nodeOccupancy \div 2 - 1
       ELSE nodeOccupancy \div 2
  ELSE nodeOccupancy \div 2

\* The indices of oldNode->keyArray that splitNonLeafNode writes while it
\* moves and clears entries: keyArray[i+1] for every i of the move loop
\* (l.312) and keyArray[moveUpIndex] (l.317); and those of pageNoArray
\* (l.311, l.318).
KeySlotsCleared(oldNode, newEntry) ==
  LET moveUpIndex == MoveUpIndex(oldNode, newEntry)
  IN {i + 1 : i \in moveUpIndex + 1 .. nodeOccupancy - 1} \cup {moveUpIndex}

PageSlotsCleared(oldNode, newEntry) ==
  LET moveUpIndex == MoveUpIndex(oldNode, newEntry)
  IN {i + 1 : i \in moveUpIndex + 1 .. nodeOccupancy - 1} \cup {moveUpIndex}

\* The loop that moves the upper entries of a full internal node.
RECURSIVE MoveNonLeaf(_, _, _, _)
MoveNonLeaf(oldNode, newNode, i, mid) ==
  IF i < nodeOccupancy
  THEN MoveNonLeaf(
         SetKey([oldNode EXCEPT !.pageNoArray[i + 1] = 0], i + 1, 0),
         [newNode EXCEPT !.keyArray[i - mid] = oldNode.keyArray[i],
                         !.pageNoArray[i - mid] = oldNode.pageNoArray[i + 1]],
         i + 1, mid)
  ELSE [oldNode |-> oldNode, newNode |-> newNode]

\* The two halves with the level of the new node left as allocPage gave it
\* (l.315 left out).
SplitNonLeafPages_LevelUnset(old0, newEntry) ==
  LET moveUpIndex == MoveUpIndex(old0, newEntry)
      mid == moveUpIndex + 1
      moved == MoveNonLeaf(old0, FreshNonLeaf, mid, mid)
      new1 == moved.newNode
      old1 == [moved.oldNode EXCEPT !.keyArray[moveUpIndex] = 0,
                                    !.pageNoArray[moveUpIndex] = 0]
      toOld == newEntry.key < new1.keyArray[0]
  IN [oldNode |-> IF toOld THEN insertNonLeafNode(old1, newEntry) ELSE old1,
      newNode |-> IF toOld THEN new1 ELSE insertNonLeafNode(new1, newEntry),
      moveUpKey |-> old0.keyArray[moveUpIndex]]

\* The two internal nodes after the split and the placement of newEntry.
SplitNonLeafPages(old0, newEntry) ==
  LET moveUpIndex == MoveUpIndex(old0, newEntry)
      mid == moveUpIndex + 1
      moved == MoveNonLeaf(old0, FreshNonLeaf, mid, mid)
      new1 == [moved.newNode EXCEPT !.level = moved.oldNode.level]
      old1 == [moved.oldNode EXCEPT !.keyArray[moveUpIndex] = 0,
                                    !.pageNoArray[moveUpIndex] = 0]
      toOld == newEntry.key < new1.keyArray[0]
  IN [oldNode |-> IF toOld THEN insertNonLeafNode(old1, newEntry) ELSE old1,
      newNode |-> IF toOld THEN new1 ELSE insertNonLeafNode(new1, newEntry),
      moveUpKey |-> old0.keyArray[moveUpIndex]]

splitNonLeafNode(m, oldPageNumber, newEntry) ==
  LET m1 == allocPage(m, FreshNonLeaf)
      newPageNumber == m1.numPages
      halves == SplitNonLeafPages(m.pages[oldPageNumber], newEntry)
      moveUpEntry == PageKeyPair(newPageNumber, halves.moveUpKey)
      m2 == [m1 EXCEPT !.pages[oldPageNumber] = halves.oldNode,
                       !.pages[newPageNumber] = halves.newNode]
      m3 == unPinDirty(unPinDirty(m2, oldPageNumber), newPageNumber)
  IN [m |-> IF oldPageNumber = m.rootPageNum
            THEN updateRootNode(m3, oldPageNumber, moveUpEntry)
            ELSE m3,
      newEntry |-> moveUpEntry]

----------------------------------------------------------------------------
(* Insert engine.                                                          *)

\* splitLeafNode and splitNonLeafNode hand back the address of a local of
\* their own frame (newKeyPair, moveUpEntry).  The caller dereferences it
\* after that frame is gone: it reads either the words as they were left or
\* whatever later calls stored there.
StaleEntries == {PageKeyPair(0, 0)}
Intact == nullptr
DanglingReads == {Intact} \cup StaleEntries

Deref(newEntry, seen) == IF seen = Intact THEN newEntry ELSE seen

\* insert(curPage, curPageNum, isLeafNode, dataEntry, newEntry); curPage is
\* pinned by the caller.  seen is what a read through a dangling newEntry
\* yields during this call.  A page read through the wrong struct (a leaf
\* as NonLeafNodeInt, the meta page as a node) ends the call with err
\* "TypeConfusion" and leaves the pages as they are.
RECURSIVE insert(_, _, _, _, _)
insert(m, curPageNum, isLeafNode, dataEntry, seen) ==
  IF curPageNum = headerPageNum \/ (m.pages[curPageNum].kind = "leaf") # isLeafNode
  THEN [m |-> [m EXCEPT !.err = "TypeConfusion"], newEntry |-> nullptr]
  ELSE IF ~isLeafNode
  THEN
    LET curNode == m.pages[curPageNum]
        nextNodeNum == findNextNonLeafNode(curNode, dataEntry.key)
        m1 == readPage(m, nextNodeNum)
    IN IF m1.err # ""
       THEN [m |-> m1, newEntry |-> nullptr]
       ELSE
         LET r == insert(m1, nextNodeNum, curNode.level = 1, dataEntry, seen)
             entry == Deref(r.newEntry, seen)
             node == r.m.pages[curPageNum]
         IN IF r.m.err # "" THEN r
            ELSE IF r.newEntry.null
            THEN [m |-> unPinPage(r.m, curPageNum), newEntry |-> nullptr]
            ELSE IF node.pageNoArray[nodeOccupancy] = 0
            THEN [m |-> unPinDirty([r.m EXCEPT !.pages[curPageNum] =
                                     insertNonLeafNode(node, entry)], curPageNum),
                  newEntry |-> nullptr]
            ELSE splitNonLeafNode(r.m, curPageNum, entry)
  ELSE
    LET leaf == m.pages[curPageNum]
    IN IF leaf.ridArray[leafOccupancy - 1] = 0
       THEN [m |-> unPinDirty([m EXCEPT !.pages[curPageNum] =
                                insertLeafNode(leaf, dataEntry)], curPageNum),
             newEntry |-> nullptr]
       ELSE splitLeafNode(m, curPageNum, dataEntry)

\* insertEntry(key, rid)
insertEntry(m, key, rid, seen) ==
  LET m1 == readPage(m, m.rootPageNum)
  IN insert(m1, m.rootPageNum, initialRootPageNum = m.rootPageNum,
            [key |-> key, rid |-> rid], seen).m

----------------------------------------------------------------------------
(* The index after the create path of the constructor on an empty          *)
(* relation: header page 1, root leaf 2 with rightSibPageNo = 0.           *)

Init ==
  /\ leafOccupancy = INTARRAYLEAFSIZE
  /\ nodeOccupancy = INTARRAYNONLEAFSIZE
  /\ numPages = 2
  /\ pages = (2 :> FreshLeaf)
  /\ pinCnt = [p \in 1 .. 2 |-> 0]
  /\ rootPageNum = 2
  /\ initialRootPageNum = 2
  /\ metaRootPageNo = 2
  /\ scanExecuting = FALSE
  /\ nextEntry = 0
  /\ currentPageNum = 0
  /\ lowValInt = 0
  /\ highValInt = 0
  /\ lowOp = "GTE"
  /\ highOp = "LTE"
  /\ inserted = {}
  /\ emitted = <<>>
  /\ lastCall = [op |-> "open", res |-> "ok"]
  /\ badUnpin = FALSE
  /\ dirtied = {}
  /\ file = "open"
  /\ probe = NoProbe
  /\ relation = <<>>

\* The node capacities, which no call changes once the constructor has set
\* them.
occVars == <<leafOccupancy, nodeOccupancy>>

\* The members of the object and the helper calls other calls leave alone.
objVars == <<file, probe, relation, leafOccupancy, nodeOccupancy>>

\* Number of insertEntry calls made so far.
NumInserts == Cardinality(inserted)

scanVars == <<scanExecuting, nextEntry, currentPageNum, lowValInt, highValInt,
              lowOp, highOp, emitted>>

\* insertEntry with key k; the RecordId is the number of the call.  The
\* entry counts as inserted whether or not the call ends with an error.
\* reads is the set of values a read through a dangling newEntry can yield.
\* The index is built first and scanned afterwards: insertEntry reads nothing
\* of the scan cursor, and the scan calls write no page.
InsertEntryReading(reads) ==
  /\ file = "open"
  /\ lastCall.op \in {"open", "insertEntry"}
  /\ NumInserts < MaxInserts
  /\ \E k \in Keys, seen \in reads :
       LET rid == NumInserts + 1
           m == insertEntry(Machine, k, rid, seen)
       IN /\ pages' = m.pages
          /\ numPages' = m.numPages
          /\ pinCnt' = m.pinCnt
          /\ rootPageNum' = m.rootPageNum
          /\ metaRootPageNo' = m.metaRootPageNo
          /\ badUnpin' = m.badUnpin
          /\ dirtied' = m.dirty
          /\ inserted' = inserted \cup {[key |-> k, rid |-> rid]}
          /\ lastCall' = [op |-> "insertEntry",
                          res |-> IF m.err = "" THEN "ok" ELSE m.err]
  /\ UNCHANGED <<initialRootPageNum, scanVars, objVars>>

\* insertEntry on any build.
InsertEntry == InsertEntryReading(DanglingReads)

\* insertEntry on a build in which the words of the dead frame are still
\* intact whenever they are read.
InsertEntryIntact == InsertEntryReading({Intact})

----------------------------------------------------------------------------
(* Scan cursor.                                                            *)

\* checkKey that compares strictly on both sides whatever the operators.
checkKey_Strict(lowVal, lowOpParm, highVal, highOpParm, key) ==
  key < highVal /\ key > lowVal

checkKey(lowVal, lowOpParm, highVal, highOpParm, key) ==
  IF lowOpParm = "GTE" /\ highOpParm = "LTE" THEN key <= highVal /\ key >= lowVal
  ELSE IF lowOpParm = "GT" /\ highOpParm = "LTE" THEN key <= highVal /\ key > lowVal
  ELSE IF lowOpParm = "GTE" /\ highOpParm = "LT" THEN key < highVal /\ key >= lowVal
  ELSE key < highVal /\ key > lowVal

\* The descent of startScan through the internal levels; cur is pinned.
\* q holds the bounds and operators of the scan.
RECURSIVE ScanDescend(_, _, _)
ScanDescend(m, cur, q) ==
  IF cur = headerPageNum \/ m.pages[cur].kind = "leaf"
  THEN [m |-> [m EXCEPT !.err = "TypeConfusion"], cur |-> cur]
  ELSE
    LET curPointer == m.pages[cur]
        nextPageNum == findNextNonLeafNode(curPointer, q.low)
        m1 == readPage(unPinPage(m, cur), nextPageNum)
    IN IF m1.err # "" \/ curPointer.level = 1
       THEN [m |-> m1, cur |-> nextPageNum]
       ELSE ScanDescend(m1, nextPageNum, q)

\* The search of startScan without the unpin on the exits for a key beyond
\* the upper bound (l.505 and l.509 left out).
RECURSIVE LeafSearch_BeyondPinned(_, _, _, _)
LeafSearch_BeyondPinned(m, cur, i, q) ==
  IF cur = headerPageNum \/ m.pages[cur].kind # "leaf"
  THEN [m |-> [m EXCEPT !.err = "TypeConfusion"], cur |-> cur, found |-> FALSE, i |-> i]
  ELSE
    LET curNode == m.pages[cur]
        keyValue == curNode.keyArray[i]
        fail == [m |-> [unPinPage(m, cur) EXCEPT !.err = "NoSuchKeyFound"],
                 cur |-> cur, found |-> FALSE, i |-> i]
        beyond == [m |-> [m EXCEPT !.err = "NoSuchKeyFound"],
                   cur |-> cur, found |-> FALSE, i |-> i]
    IN IF i = 0 /\ curNode.ridArray[0] = 0 THEN fail
       ELSE IF checkKey(q.low, q.lowOp, q.high, q.highOp, keyValue)
       THEN [m |-> m, cur |-> cur, found |-> TRUE, i |-> i]
       ELSE IF q.highOp = "LTE" /\ ~(keyValue <= q.high) THEN beyond
       ELSE IF q.highOp = "LT" /\ ~(keyValue < q.high) THEN beyond
       ELSE IF i = leafOccupancy - 1
       THEN LET sibNo == curNode.rightSibPageNo
                m1 == readPage(unPinPage(m, cur), sibNo)
            IN IF sibNo = 0 THEN fail
               ELSE IF m1.err # ""
               THEN [m |-> m1, cur |-> sibNo, found |-> FALSE, i |-> i]
               ELSE LeafSearch_BeyondPinned(m1, sibNo, 0, q)
       ELSE LeafSearch_BeyondPinned(m, cur, i + 1, q)

\* The search of startScan for the first entry in range, at slot i of the
\* pinned leaf cur.  noVal never becomes true (line 495 compares, it does not
\* assign), so every slot 0..leafOccupancy-1 is looked at.
RECURSIVE LeafSearch(_, _, _, _)
LeafSearch(m, cur, i, q) ==
  IF cur = headerPageNum \/ m.pages[cur].kind # "leaf"
  THEN [m |-> [m EXCEPT !.err = "TypeConfusion"], cur |-> cur, found |-> FALSE, i |-> i]
  ELSE
    LET curNode == m.pages[cur]
        keyValue == curNode.keyArray[i]
        fail == [m |-> [unPinPage(m, cur) EXCEPT !.err = "NoSuchKeyFound"],
                 cur |-> cur, found |-> FALSE, i |-> i]
    IN IF i = 0 /\ curNode.ridArray[0] = 0 THEN fail
       ELSE IF checkKey(q.low, q.lowOp, q.high, q.highOp, keyValue)
       THEN [m |-> m, cur |-> cur, found |-> TRUE, i |-> i]
       ELSE IF q.highOp = "LTE" /\ ~(keyValue <= q.high) THEN fail
       ELSE IF q.highOp = "LT" /\ ~(keyValue < q.high) THEN fail
       ELSE IF i = leafOccupancy - 1
       THEN LET sibNo == curNode.rightSibPageNo
                m1 == readPage(unPinPage(m, cur), sibNo)
            IN IF sibNo = 0 THEN fail
               ELSE IF m1.err # ""
               THEN [m |-> m1, cur |-> sibNo, found |-> FALSE, i |-> i]
               ELSE LeafSearch(m1, sibNo, 0, q)
       ELSE LeafSearch(m, cur, i + 1, q)

\* startScan after the operators and the range were accepted.
startScan(m, q) ==
  LET m1 == readPage(m, m.rootPageNum)
      d == IF initialRootPageNum # m.rootPageNum
           THEN ScanDescend(m1, m.rootPageNum, q)
           ELSE [m |-> m1, cur |-> m.rootPageNum]
  IN IF d.m.err # ""
     THEN [m |-> d.m, cur |-> d.cur, found |-> FALSE, i |-> 0]
     ELSE LeafSearch(d.m, d.cur, 0, q)

\* if (scanExecuting) endScan();  at the head of startScan
EndPrevious_Skip(m) == m

EndPrevious(m) == IF scanExecuting THEN unPinPage(m, currentPageNum) ELSE m

\* The operator test of startScan.
BadOpcodes_LowOnly(lowOpParm, highOpParm) == lowOpParm \notin LowOps

BadOpcodes(lowOpParm, highOpParm) ==
  lowOpParm \notin LowOps \/ highOpParm \notin HighOps

\* The range test of startScan.
BadScanrange_Inclusive(low, high) == low >= high

BadScanrange(low, high) == low > high

\* Effect of a call on the buffer manager's pin counts.
SetPins(m) ==
  pinCnt' = m.pinCnt /\ badUnpin' = m.badUnpin /\ dirtied' = m.dirty

treeVars == <<pages, numPages, rootPageNum, initialRootPageNum, metaRootPageNo,
              inserted>>

\* Scans are explored as one scan (startScan, possibly called again while
\* the scan it started has returned nothing yet, then scanNext and endScan in
\* any order and number) on an index of up to MaxScanInserts entries, and as
\* any sequence of scan calls on an index of up to MaxRescanInserts entries.
StartScan ==
  /\ file = "open"
  /\ \/ NumInserts <= MaxRescanInserts
     \/ /\ NumInserts <= MaxScanInserts
        /\ \/ lastCall.op \in {"open", "insertEntry"}
           \/ lastCall = [op |-> "startScan", res |-> "ok"]
  /\ \E lowValParm \in Keys, highValParm \in Keys,
        lowOpParm \in Operators, highOpParm \in Operators :
       LET m0 == EndPrevious(Machine)
           q == [low |-> lowValParm, lowOp |-> lowOpParm,
                 high |-> highValParm, highOp |-> highOpParm]
           r == startScan(m0, q)
       IN IF BadOpcodes(lowOpParm, highOpParm)
          THEN /\ SetPins(m0)
               /\ scanExecuting' = FALSE
               /\ lastCall' = [op |-> "startScan", res |-> "BadOpcodes"]
               /\ UNCHANGED <<nextEntry, currentPageNum, lowValInt, highValInt,
                              lowOp, highOp>>
          ELSE /\ lowValInt' = lowValParm
               /\ highValInt' = highValParm
               /\ lowOp' = lowOpParm
               /\ highOp' = highOpParm
               /\ IF BadScanrange(lowValParm, highValParm)
                  THEN /\ SetPins(m0)
                       /\ scanExecuting' = FALSE
                       /\ lastCall' = [op |-> "startScan", res |-> "BadScanrange"]
                       /\ UNCHANGED <<nextEntry, currentPageNum>>
                  ELSE /\ SetPins(r.m)
                       /\ scanExecuting' = r.found
                       /\ currentPageNum' = r.cur
                       /\ nextEntry' = IF r.found THEN r.i ELSE nextEntry
                       /\ lastCall' = [op |-> "startScan",
                                       res |-> IF r.found THEN "ok" ELSE r.m.err]
  /\ emitted' = <<>>
  /\ UNCHANGED <<treeVars, objVars>>

ScanNext ==
  /\ file = "open"
  /\ IF ~scanExecuting
     THEN /\ lastCall' = [op |-> "scanNext", res |-> "ScanNotInitialized"]
          /\ dirtied' = {}
          /\ UNCHANGED <<pinCnt, badUnpin, currentPageNum, nextEntry, emitted>>
     ELSE
       LET curNode == pages[currentPageNum]
           advance == nextEntry = leafOccupancy \/ curNode.ridArray[nextEntry] = 0
           m1 == IF advance THEN unPinPage(Machine, currentPageNum) ELSE Machine
           atEnd == advance /\ curNode.rightSibPageNo = 0
           cur == IF advance THEN curNode.rightSibPageNo ELSE currentPageNum
           m2 == IF advance /\ ~atEnd THEN readPage(m1, cur) ELSE m1
           entry == IF advance THEN 0 ELSE nextEntry
           keyValue == pages[cur].keyArray[entry]
       IN IF atEnd
          THEN /\ SetPins(m1)
               /\ lastCall' = [op |-> "scanNext", res |-> "IndexScanCompleted"]
               /\ UNCHANGED <<currentPageNum, nextEntry, emitted>>
          ELSE /\ SetPins(m2)
               /\ currentPageNum' = cur
               /\ IF checkKey(lowValInt, lowOp, highValInt, highOp, keyValue)
                  THEN /\ nextEntry' = entry + 1
                       /\ emitted' = Append(emitted,
                            [key |-> keyValue, rid |-> pages[cur].ridArray[entry]])
                       /\ lastCall' = [op |-> "scanNext", res |-> "ok"]
                  ELSE /\ nextEntry' = entry
                       /\ emitted' = emitted
                       /\ lastCall' = [op |-> "scanNext", res |-> "IndexScanCompleted"]
  /\ UNCHANGED <<treeVars, objVars, scanExecuting, lowValInt, highValInt,
                 lowOp, highOp>>

\* endScan that returns without an error when no scan is active.
EndScan_Silent ==
  /\ file = "open"
  /\ IF ~scanExecuting
     THEN /\ lastCall' = [op |-> "endScan", res |-> "ok"]
          /\ dirtied' = {}
          /\ UNCHANGED <<pinCnt, badUnpin, scanExecuting>>
     ELSE /\ SetPins(unPinPage(Machine, currentPageNum))
          /\ scanExecuting' = FALSE
          /\ lastCall' = [op |-> "endScan", res |-> "ok"]
  /\ UNCHANGED <<treeVars, objVars, nextEntry, currentPageNum, lowValInt,
                 highValInt, lowOp, highOp, emitted>>

EndScan ==
  /\ file = "open"
  /\ IF ~scanExecuting
     THEN /\ lastCall' = [op |-> "endScan", res |-> "ScanNotInitialized"]
          /\ dirtied' = {}
          /\ UNCHANGED <<pinCnt, badUnpin, scanExecuting>>
     ELSE /\ SetPins(unPinPage(Machine, currentPageNum))
          /\ scanExecuting' = FALSE
          /\ lastCall' = [op |-> "endScan", res |-> "ok"]
  /\ UNCHANGED <<treeVars, objVars, nextEntry, currentPageNum, lowValInt,
                 highValInt, lowOp, highOp, emitted>>

----------------------------------------------------------------------------
(* Index lifecycle: the destructor, and the constructor on an index file   *)
(* that exists.                                                            *)

\* ~BTreeIndex: flushFile, delete file.  The destructor ends no scan and
\* unpins no page; flushFile writes pages back, which changes nothing of
\* their contents.
Close ==
  /\ file = "open"
  /\ file' = "deleted"
  /\ lastCall' = [op |-> "close", res |-> "ok"]
  /\ dirtied' = {}
  /\ UNCHANGED <<treeVars, scanVars, pinCnt, badUnpin, probe, relation, occVars>>

\* The values the member initialRootPageNum of a new object can hold: the
\* open path of the constructor never assigns it, so it holds whatever the
\* memory of the object held: 0, the number of the first root page, the
\* number of the current root, or any other word.
UninitPageIds == {0, headerPageNum + 1, metaRootPageNo}

\* BTreeIndex::BTreeIndex when the index file exists and the meta page
\* agrees with the arguments: the meta page is read, rootPageNum is taken
\* from it, the meta page is unpinned.  The members of the scan cursor are
\* not initialised either; every path writes them before it reads them.
Open ==
  /\ file = "deleted"
  /\ file' = "open"
  /\ scanExecuting' = FALSE
  /\ rootPageNum' = metaRootPageNo
  /\ \E word \in UninitPageIds : initialRootPageNum' = word
  /\ SetPins(unPinPage(readPage(Machine, headerPageNum), headerPageNum))
  /\ nextEntry' = 0
  /\ currentPageNum' = 0
  /\ lowValInt' = 0
  /\ highValInt' = 0
  /\ lowOp' = "GTE"
  /\ highOp' = "LTE"
  /\ emitted' = <<>>
  /\ lastCall' = [op |-> "open", res |-> "ok"]
  /\ UNCHANGED <<pages, numPages, metaRootPageNo, inserted, probe, relation,
                 occVars>>

----------------------------------------------------------------------------
(* checkKey called directly, for bounds and keys over the range of int.    *)

INT_MAX == 2147483647
INT_MIN == 0 - INT_MAX - 1

\* The values of int the helper is called with: the index keys, the next
\* larger value, and both ends of the range of int.
ProbeInts ==
  Keys \cup {MaxKey + 1, INT_MIN, INT_MIN + 1, INT_MAX - 1, INT_MAX}

\* A new index whose scan members hold any bounds and any valid operators.
InitCheckKey ==
  /\ leafOccupancy = INTARRAYLEAFSIZE
  /\ nodeOccupancy = INTARRAYNONLEAFSIZE
  /\ numPages = 2
  /\ pages = (2 :> FreshLeaf)
  /\ pinCnt = [p \in 1 .. 2 |-> 0]
  /\ rootPageNum = 2
  /\ initialRootPageNum = 2
  /\ metaRootPageNo = 2
  /\ scanExecuting = FALSE
  /\ nextEntry = 0
  /\ currentPageNum = 0
  /\ lowValInt \in ProbeInts
  /\ highValInt \in ProbeInts
  /\ lowOp \in LowOps
  /\ highOp \in HighOps
  /\ inserted = {}
  /\ emitted = <<>>
  /\ lastCall = [op |-> "open", res |-> "ok"]
  /\ badUnpin = FALSE
  /\ dirtied = {}
  /\ file = "open"
  /\ probe = NoProbe
  /\ relation = <<>>

\* checkKey(lowValInt, lowOp, highValInt, highOp, key), as scanNext and
\* startScan call it; the call changes no member.
CheckKey ==
  /\ \E key \in ProbeInts :
       probe' = [fn |-> "checkKey", key |-> key,
                 result |-> checkKey(lowValInt, lowOp, highValInt, highOp, key)]
  /\ UNCHANGED <<treeVars, scanVars, pinCnt, badUnpin, lastCall, file, relation,
                 occVars, dirtied>>

SpecCheckKey == InitCheckKey /\ [][CheckKey]_vars

----------------------------------------------------------------------------
(* The create path of the constructor: the bulk load of the base relation. *)

\* The base relations: the keys of up to MaxLoad tuples.
Relations == UNION {[1 .. n -> Keys] : n \in 0 .. MaxLoad}

\* The tuples of the base relation; tuple number i has RecordId i.
RelationTuples == {[key |-> relation[i], rid |-> i] : i \in 1 .. Len(relation)}

\* while(1) { fscan.scanNext(scanRid); ...; insertEntry(key, scanRid); }
\* from tuple i on.  l is the outcome so far: the index and the number of
\* insertEntry calls made; an insertEntry that ends with an error leaves
\* the loop, as only EndOfFileException is caught.  seens[i] is what
\* insertEntry number i reads through its dangling newEntry.
RECURSIVE BulkLoadFrom(_, _, _)
BulkLoadFrom(l, i, seens) ==
  IF i > Len(relation) \/ l.m.err # "" THEN l
  ELSE BulkLoadFrom([m |-> insertEntry(l.m, relation[i], i, seens[i]),
                     calls |-> i], i + 1, seens)

\* The constructor has created the index file, the meta page and the empty
\* root leaf (l.79-99) and is about to scan the base relation.
InitLoad ==
  /\ leafOccupancy = INTARRAYLEAFSIZE
  /\ nodeOccupancy = INTARRAYNONLEAFSIZE
  /\ numPages = 2
  /\ pages = (2 :> FreshLeaf)
  /\ pinCnt = [p \in 1 .. 2 |-> 0]
  /\ rootPageNum = 2
  /\ initialRootPageNum = 2
  /\ metaRootPageNo = 2
  /\ scanExecuting = FALSE
  /\ nextEntry = 0
  /\ currentPageNum = 0
  /\ lowValInt = 0
  /\ highValInt = 0
  /\ lowOp = "GTE"
  /\ highOp = "LTE"
  /\ inserted = {}
  /\ emitted = <<>>
  /\ lastCall = [op |-> "new", res |-> "ok"]
  /\ badUnpin = FALSE
  /\ dirtied = {}
  /\ file = "loading"
  /\ probe = NoProbe
  /\ relation \in Relations

\* The rest of the create path (l.101-119): the FileScan loop and, at
\* EndOfFileException, flushFile.  inserted is the set of tuples insertEntry
\* was called with.  An error of insertEntry propagates out of the
\* constructor: no object exists then.
BulkLoad ==
  /\ file = "loading"
  /\ \E seens \in [1 .. Len(relation) -> DanglingReads] :
     LET l == BulkLoadFrom([m |-> Machine, calls |-> 0], 1, seens) IN
       /\ pages' = l.m.pages
       /\ numPages' = l.m.numPages
       /\ pinCnt' = l.m.pinCnt
       /\ rootPageNum' = l.m.rootPageNum
       /\ metaRootPageNo' = l.m.metaRootPageNo
       /\ badUnpin' = l.m.badUnpin
       /\ dirtied' = l.m.dirty
       /\ inserted' = {t \in RelationTuples : t.rid <= l.calls}
       /\ file' = IF l.m.err = "" THEN "open" ELSE "failed"
       /\ lastCall' = [op |-> "create",
                       res |-> IF l.m.err = "" THEN "ok" ELSE l.m.err]
  /\ UNCHANGED <<initialRootPageNum, scanVars, probe, relation, occVars>>

NextLoad == BulkLoad \/ Close \/ Open

SpecLoad == InitLoad /\ [][NextLoad]_vars

----------------------------------------------------------------------------
(* The index with leafOccupancy = 5 and nodeOccupancy = 4, filled with     *)
(* multiples of ten.                                                       *)

\* The keys inserted; as many insertEntry calls are explored as there are
\* keys, each call with any of the keys.
HarnessKeys == {10, 20, 30, 40, 50, 60}

\* The new index of Init, with the two capacities set to 5 and 4.
InitHarness ==
  /\ leafOccupancy = 5
  /\ nodeOccupancy = 4
  /\ numPages = 2
  /\ pages = (2 :> FreshLeaf)
  /\ pinCnt = [p \in 1 .. 2 |-> 0]
  /\ rootPageNum = 2
  /\ initialRootPageNum = 2
  /\ metaRootPageNo = 2
  /\ scanExecuting = FALSE
  /\ nextEntry = 0
  /\ currentPageNum = 0
  /\ lowValInt = 0
  /\ highValInt = 0
  /\ lowOp = "GTE"
  /\ highOp = "LTE"
  /\ inserted = {}
  /\ emitted = <<>>
  /\ lastCall = [op |-> "open", res |-> "ok"]
  /\ badUnpin = FALSE
  /\ dirtied = {}
  /\ file = "open"
  /\ probe = NoProbe
  /\ relation = <<>>

\* insertEntry with a key of HarnessKeys; the RecordId is the number of the
\* call.
InsertEntryHarness ==
  /\ file = "open"
  /\ NumInserts < Cardinality(HarnessKeys)
  /\ \E k \in HarnessKeys, seen \in DanglingReads :
       LET rid == NumInserts + 1
           m == insertEntry(Machine, k, rid, seen)
       IN /\ pages' = m.pages
          /\ numPages' = m.numPages
          /\ pinCnt' = m.pinCnt
          /\ rootPageNum' = m.rootPageNum
          /\ metaRootPageNo' = m.metaRootPageNo
          /\ badUnpin' = m.badUnpin
          /\ dirtied' = m.dirty
          /\ inserted' = inserted \cup {[key |-> k, rid |-> rid]}
          /\ lastCall' = [op |-> "insertEntry",
                          res |-> IF m.err = "" THEN "ok" ELSE m.err]
  /\ UNCHANGED <<initialRootPageNum, scanVars, objVars>>

SpecHarness == InitHarness /\ [][InsertEntryHarness]_vars

----------------------------------------------------------------------------
(* The index on a root leaf whose words, as allocPage returned them, are   *)
(* not zero, next to the same calls on a zero-filled root leaf.            *)

\* The words a page returned by allocPage can hold.
FillWords == {0, 1}

\* The root leaf after the create path: the constructor writes
\* rightSibPageNo and nothing else (l.94-96).
RootLeafOn(word) ==
  LeafNodeInt([i \in 0 .. leafOccupancy - 1 |-> word],
              [i \in 0 .. leafOccupancy - 1 |-> word], 0)

\* The state after construction on a root page filled with any word; probe
\* holds the index built by the same calls on a zero-filled root page.
InitFill ==
  /\ leafOccupancy = INTARRAYLEAFSIZE
  /\ nodeOccupancy = INTARRAYNONLEAFSIZE
  /\ numPages = 2
  /\ \E word \in FillWords : pages = (2 :> RootLeafOn(word))
  /\ pinCnt = [p \in 1 .. 2 |-> 0]
  /\ rootPageNum = 2
  /\ initialRootPageNum = 2
  /\ metaRootPageNo = 2
  /\ scanExecuting = FALSE
  /\ nextEntry = 0
  /\ currentPageNum = 0
  /\ lowValInt = 0
  /\ highValInt = 0
  /\ lowOp = "GTE"
  /\ highOp = "LTE"
  /\ inserted = {}
  /\ emitted = <<>>
  /\ lastCall = [op |-> "open", res |-> "ok"]
  /\ badUnpin = FALSE
  /\ dirtied = {}
  /\ file = "open"
  /\ probe = [fn |-> "zeroFilled", res |-> "ok",
              m |-> [pages |-> (2 :> RootLeafOn(0)), numPages |-> 2,
                     pinCnt |-> [p \in 1 .. 2 |-> 0], rootPageNum |-> 2,
                     metaRootPageNo |-> 2, badUnpin |-> FALSE, err |-> "",
                     dirty |-> {}]]
  /\ relation = <<>>

\* insertEntry on both indexes, with the same key, RecordId and build.
InsertEntryFill ==
  /\ file = "open"
  /\ NumInserts < MaxInserts
  /\ \E k \in Keys, seen \in DanglingReads :
       LET rid == NumInserts + 1
           m == insertEntry(Machine, k, rid, seen)
           z == insertEntry([probe.m EXCEPT !.err = "", !.dirty = {}], k, rid, seen)
       IN /\ pages' = m.pages
          /\ numPages' = m.numPages
          /\ pinCnt' = m.pinCnt
          /\ rootPageNum' = m.rootPageNum
          /\ metaRootPageNo' = m.metaRootPageNo
          /\ badUnpin' = m.badUnpin
          /\ dirtied' = m.dirty
          /\ inserted' = inserted \cup {[key |-> k, rid |-> rid]}
          /\ lastCall' = [op |-> "insertEntry",
                          res |-> IF m.err = "" THEN "ok" ELSE m.err]
          /\ probe' = [fn |-> "zeroFilled",
                       res |-> IF z.err = "" THEN "ok" ELSE z.err, m |-> z]
  /\ UNCHANGED <<initialRootPageNum, scanVars, file, relation, occVars>>

SpecFill == InitFill /\ [][InsertEntryFill]_vars

----------------------------------------------------------------------------
(* The node functions called directly on well-formed nodes: sorted keys,   *)
(* present slots in front, distinct children and RecordIds.  One call is   *)
(* made in a behaviour.                                                    *)

\* The keys of the nodes and of the entries handed to the node functions.
NodeKeys == Keys \cup {MaxKey + 1, MaxKey + 2}

\* The non-decreasing key arrays of n keys, indexed from 0.
SortedKeys(n) ==
  {f \in [0 .. n - 1 -> NodeKeys] : \A i \in 0 .. n - 2 : f[i] <= f[i + 1]}

\* The leaf with the n entries of keys ks (RecordIds 1..n) in front and free
\* slots behind.
LeafOf(ks, n, sib) ==
  LeafNodeInt([i \in 0 .. leafOccupancy - 1 |-> IF i < n THEN ks[i] ELSE 0],
              [i \in 0 .. leafOccupancy - 1 |-> IF i < n THEN i + 1 ELSE 0], sib)

\* The internal node with the n keys ks and the n + 1 children 2..n+2.
NonLeafOf(ks, n) ==
  NonLeafNodeInt(1, [i \in 0 .. nodeOccupancy - 1 |-> IF i < n THEN ks[i] ELSE 0],
                 [j \in 0 .. nodeOccupancy |-> IF j <= n THEN j + 2 ELSE 0])

\* A new index; the capacities are the scaled ones or one more, so that an
\* even and an odd value of each are met.
InitNode ==
  /\ leafOccupancy \in {INTARRAYLEAFSIZE, INTARRAYLEAFSIZE + 1}
  /\ nodeOccupancy \in {INTARRAYNONLEAFSIZE, INTARRAYNONLEAFSIZE + 1}
  /\ numPages = 2
  /\ pages = (2 :> FreshLeaf)
  /\ pinCnt = [p \in 1 .. 2 |-> 0]
  /\ rootPageNum = 2
  /\ initialRootPageNum = 2
  /\ metaRootPageNo = 2
  /\ scanExecuting = FALSE
  /\ nextEntry = 0
  /\ currentPageNum = 0
  /\ lowValInt = 0
  /\ highValInt = 0
  /\ lowOp = "GTE"
  /\ highOp = "LTE"
  /\ inserted = {}
  /\ emitted = <<>>
  /\ lastCall = [op |-> "open", res |-> "ok"]
  /\ badUnpin = FALSE
  /\ dirtied = {}
  /\ file = "open"
  /\ probe = NoProbe
  /\ relation = <<>>

nodeVars == <<treeVars, scanVars, pinCnt, badUnpin, lastCall, file, relation,
              occVars, dirtied>>

\* splitNonLeafNode on a full internal node; the incoming entry points to
\* the page after the children of the node.
SplitNonLeaf ==
  /\ probe = NoProbe
  /\ \E ks \in SortedKeys(nodeOccupancy), key \in NodeKeys :
       LET old0 == NonLeafOf(ks, nodeOccupancy)
           newEntry == PageKeyPair(nodeOccupancy + 3, key)
           halves == SplitNonLeafPages(old0, newEntry)
       IN probe' = [fn |-> "splitNonLeafNode", old0 |-> old0,
                    newEntry |-> newEntry, oldNode |-> halves.oldNode,
                    newNode |-> halves.newNode, moveUpKey |-> halves.moveUpKey]
  /\ UNCHANGED nodeVars

\* findNextNonLeafNode on an internal node with n keys.
FindNextNonLeaf ==
  /\ probe = NoProbe
  /\ \E n \in 1 .. nodeOccupancy, key \in NodeKeys :
       \E ks \in SortedKeys(n) :
         LET curNode == NonLeafOf(ks, n)
         IN probe' = [fn |-> "findNextNonLeafNode", curNode |-> curNode,
                      n |-> n, key |-> key,
                      nextNodeNum |-> findNextNonLeafNode(curNode, key)]
  /\ UNCHANGED nodeVars

\* The page-level part of splitLeafNode on a full leaf; the new leaf is
\* page 9 and the new entry has the RecordId after those of the leaf.
SplitLeaf ==
  /\ probe = NoProbe
  /\ \E ks \in SortedKeys(leafOccupancy), key \in NodeKeys, sib \in {0, 8} :
       LET leaf0 == LeafOf(ks, leafOccupancy, sib)
           dataEntry == [key |-> key, rid |-> leafOccupancy + 1]
           halves == SplitLeafPages(leaf0, 9, dataEntry)
       IN probe' = [fn |-> "splitLeafNode", leaf0 |-> leaf0,
                    dataEntry |-> dataEntry, leaf |-> halves.leaf,
                    newLeafNode |-> halves.newLeafNode,
                    newKey |-> halves.newLeafNode.keyArray[0]]
  /\ UNCHANGED nodeVars

\* insertLeafNode on a leaf with n < leafOccupancy entries.
InsertLeaf ==
  /\ probe = NoProbe
  /\ \E n \in 0 .. leafOccupancy - 1, key \in NodeKeys :
       \E ks \in SortedKeys(n) :
         LET leaf0 == LeafOf(ks, n, 0)
             entry == [key |-> key, rid |-> leafOccupancy + 1]
         IN probe' = [fn |-> "insertLeafNode", leaf0 |-> leaf0, n |-> n,
                      entry |-> entry, leaf |-> insertLeafNode(leaf0, entry)]
  /\ UNCHANGED nodeVars

NextNode == SplitNonLeaf \/ FindNextNonLeaf \/ SplitLeaf \/ InsertLeaf

SpecNode == InitNode /\ [][NextNode]_vars

----------------------------------------------------------------------------
(* Specifications.  SpecTree is the index under insertEntry calls alone;   *)
(* Spec adds the scan calls, on an index that is not modified once it is   *)
(* scanned.  SpecTreeIntact and SpecIntact are the same on a build whose   *)
(* dangling reads always see the intact words.                             *)

NextTree == InsertEntry

SpecTree == Init /\ [][NextTree]_vars

Next == InsertEntry \/ StartScan \/ ScanNext \/ EndScan

Spec == Init /\ [][Next]_vars

NextTreeIntact == InsertEntryIntact

SpecTreeIntact == Init /\ [][NextTreeIntact]_vars

NextIntact == InsertEntryIntact \/ StartScan \/ ScanNext \/ EndScan

SpecIntact == Init /\ [][NextIntact]_vars

\* The index under all public calls, closed and opened again at any time.
InsertEntryLife == NumInserts < MaxLifeInserts /\ InsertEntry

PinsBounded == \A p \in DOMAIN pinCnt : pinCnt[p] <= MaxPinCnt

StartScanLife == PinsBounded /\ StartScan

CloseLife == PinsBounded /\ Close

NextLife ==
  InsertEntryLife \/ StartScanLife \/ ScanNext \/ EndScan \/ CloseLife \/ Open

SpecLife == Init /\ [][NextLife]_vars

----------------------------------------------------------------------------
(* insertEntry called while a scan is active.  The calls of one thread     *)
(* interleave: the leaf of the scan stays pinned, and insertEntry writes   *)
(* the same buffer frame the cursor reads.                                 *)

\* The entries inserted since the scan was started.
Added == IF probe.fn = "added" THEN probe.added ELSE {}

\* insertEntry at any time; an entry inserted while a scan is active is
\* recorded.
InsertEntryMixed ==
  /\ file = "open"
  /\ NumInserts < MaxScanInserts
  /\ \E k \in Keys, seen \in DanglingReads :
       LET rid == NumInserts + 1
           m == insertEntry(Machine, k, rid, seen)
       IN /\ pages' = m.pages
          /\ numPages' = m.numPages
          /\ pinCnt' = m.pinCnt
          /\ rootPageNum' = m.rootPageNum
          /\ metaRootPageNo' = m.metaRootPageNo
          /\ badUnpin' = m.badUnpin
          /\ dirtied' = m.dirty
          /\ inserted' = inserted \cup {[key |-> k, rid |-> rid]}
          /\ lastCall' = [op |-> "insertEntry",
                          res |-> IF m.err = "" THEN "ok" ELSE m.err]
          /\ probe' = IF scanExecuting
                      THEN [fn |-> "added",
                            added |-> Added \cup {[key |-> k, rid |-> rid]}]
                      ELSE probe
  /\ UNCHANGED <<initialRootPageNum, scanVars, file, relation, occVars>>

\* startScan, as long as no entry was inserted into an active scan.
StartScanMixed == Added = {} /\ StartScan

NextMixed == InsertEntryMixed \/ StartScanMixed \/ ScanNext \/ EndScan

SpecMixed == Init /\ [][NextMixed]_vars

----------------------------------------------------------------------------
(* The constructor on an index file that exists, called with any           *)
(* arguments.                                                              *)

\* What the create path wrote into the meta page (l.88-92), and the
\* arguments a later constructor call can pass.
MetaInfo ==
  [relationName |-> "relA", attrByteOffset |-> 0, attrType |-> "INTEGER"]

OpenArgs ==
  [relationName : {"relA", "relB"}, attrByteOffset : {0, 4},
   attrType : {"INTEGER", "DOUBLE"}]

\* The test of l.66-67.
BadIndexInfo(args) ==
  \/ args.relationName # MetaInfo.relationName
  \/ args.attrType # MetaInfo.attrType
  \/ args.attrByteOffset # MetaInfo.attrByteOffset

\* BTreeIndex::BTreeIndex when the index file exists and the meta page
\* differs from the arguments: the meta page is read, rootPageNum is taken
\* from it, and BadIndexInfoException leaves the constructor (the handler
\* of l.76 is for FileNotFoundException only); no object comes into being.
OpenBadInfo ==
  /\ file = "deleted"
  /\ PinsBounded
  /\ \E args \in OpenArgs :
       /\ BadIndexInfo(args)
       /\ SetPins(readPage(Machine, headerPageNum))
       /\ scanExecuting' = FALSE
       /\ rootPageNum' = metaRootPageNo
       /\ lastCall' = [op |-> "open", res |-> "BadIndexInfo"]
  /\ UNCHANGED <<pages, numPages, initialRootPageNum, metaRootPageNo, inserted,
                 nextEntry, currentPageNum, lowValInt, highValInt, lowOp,
                 highOp, emitted, objVars>>

NextOpen == InsertEntryLife \/ CloseLife \/ Open \/ OpenBadInfo

SpecOpen == Init /\ [][NextOpen]_vars

----------------------------------------------------------------------------
(* Observers of the tree, used to state the properties.                    *)

\* The present entries of a leaf page, in slot order.
RECURSIVE EntriesFrom(_, _)
EntriesFrom(leaf, i) ==
  IF i >= leafOccupancy THEN <<>>
  ELSE (IF leaf.ridArray[i] # 0
        THEN <<[key |-> leaf.keyArray[i], rid |-> leaf.ridArray[i]]>>
        ELSE <<>>) \o EntriesFrom(leaf, i + 1)

LeafEntries(p) == EntriesFrom(pages[p], 0)

Range(seq) == {seq[i] : i \in 1 .. Len(seq)}

LeafKeys(p) == {e.key : e \in Range(LeafEntries(p))}

LeafPages == {p \in DOMAIN pages : pages[p].kind = "leaf"}

\* The leaf pages met from leaf p through rightSibPageNo; n bounds the walk.
RECURSIVE ChainFrom(_, _)
ChainFrom(p, n) ==
  IF p = 0 \/ n = 0 THEN <<>>
  ELSE <<p>> \o ChainFrom(pages[p].rightSibPageNo, n - 1)

\* The leaf chain from the leftmost leaf, which is the original root leaf
\* (the page allocated after the meta page).
LeafChain == ChainFrom(headerPageNum + 1, numPages)

RECURSIVE ConcatEntries(_)
ConcatEntries(chain) ==
  IF chain = <<>> THEN <<>>
  ELSE LeafEntries(Head(chain)) \o ConcatEntries(Tail(chain))

ChainEntries == ConcatEntries(LeafChain)

\* The keys stored in the leaves below page p (p = 0: no child).
RECURSIVE SubtreeKeys(_, _)
SubtreeKeys(p, n) ==
  IF p \notin DOMAIN pages \/ n = 0 THEN {}
  ELSE IF pages[p].kind = "leaf" THEN LeafKeys(p)
  ELSE UNION {SubtreeKeys(pages[p].pageNoArray[j], n - 1) : j \in 0 .. nodeOccupancy}

\* The internal pages reachable from page p.
RECURSIVE InternalBelow(_, _)
InternalBelow(p, n) ==
  IF p \notin DOMAIN pages \/ n = 0 \/ pages[p].kind = "leaf" THEN {}
  ELSE {p} \cup UNION {InternalBelow(pages[p].pageNoArray[j], n - 1) :
                         j \in 0 .. nodeOccupancy}

ReachableInternal == InternalBelow(rootPageNum, numPages)

\* The page at which the top-down search for key ends: 0 when the descent
\* runs into an absent child or a page that is not a node.
RECURSIVE SearchFrom(_, _, _)
SearchFrom(p, key, n) ==
  IF p \notin DOMAIN pages \/ n = 0 THEN 0
  ELSE IF pages[p].kind = "leaf" THEN p
  ELSE SearchFrom(findNextNonLeafNode(pages[p], key), key, n - 1)

SearchLeaf(key) == SearchFrom(rootPageNum, key, numPages)

\* Entry e is in leaf p, or in a right sibling reached before a key greater
\* than e.key is met.
RECURSIVE FoundFrom(_, _, _)
FoundFrom(p, e, n) ==
  IF p = 0 \/ n = 0 THEN FALSE
  ELSE IF e \in Range(LeafEntries(p)) THEN TRUE
  ELSE IF \E k \in LeafKeys(p) : k > e.key THEN FALSE
  ELSE FoundFrom(pages[p].rightSibPageNo, e, n - 1)

\* The bounds of the current scan, as the scan operators define them.
Satisfies(key) ==
  /\ (lowOp = "GT" => key > lowValInt)
  /\ (lowOp = "GTE" => key >= lowValInt)
  /\ (highOp = "LT" => key < highValInt)
  /\ (highOp = "LTE" => key <= highValInt)

Qualifying == {e \in inserted : Satisfies(e.key)}

\* The last call was a scanNext that ended the scan with IndexScanCompleted.
ScanCompleted ==
  lastCall = [op |-> "scanNext", res |-> "IndexScanCompleted"] /\ scanExecuting

\* Some internal node has split (the root is at level 0).
InternalSplitDone == \E p \in DOMAIN pages : pages[p].kind = "nonleaf" /\ pages[p].level = 0

----------------------------------------------------------------------------
(* Properties.                                                             *)

\* C1: when a scan started with valid operators and low <= high has been
\* run to IndexScanCompleted, the emitted RIDs are exactly the inserted
\* entries whose key satisfies both bounds, each emitted once.
C1_ScanExact ==
  ScanCompleted =>
    /\ Range(emitted) = Qualifying
    /\ Len(emitted) = Cardinality(Qualifying)

\* C2: after any M insertEntry calls the walk of the leaf chain from the
\* leftmost leaf yields exactly M present entries, and they are the entries
\* that were inserted.
C2_CountLaw ==
  /\ Len(ChainEntries) = NumInserts
  /\ Range(ChainEntries) = inserted

\* C3: every inserted entry is found by the top-down search for its key:
\* it is in the leaf the descent ends in, or in a right sibling reached
\* before a greater key is met.
C3_Reachable ==
  \A e \in inserted : FoundFrom(SearchLeaf(e.key), e, numPages)

\* C4: for every reachable internal node and every present separator k_i,
\* the keys below child i are < k_i and the keys below child i+1 are >= k_i.
C4_Separator ==
  \A p \in ReachableInternal : \A i \in 0 .. nodeOccupancy - 1 :
    pages[p].pageNoArray[i + 1] # 0 =>
      /\ \A k \in SubtreeKeys(pages[p].pageNoArray[i], numPages) :
           k < pages[p].keyArray[i]
      /\ \A k \in SubtreeKeys(pages[p].pageNoArray[i + 1], numPages) :
           k >= pages[p].keyArray[i]

\* C5: for every leaf A whose right sibling B is not 0, the largest key of
\* A is <= the smallest key of B.
C5_SiblingOrder ==
  \A a \in LeafPages :
    pages[a].rightSibPageNo # 0 =>
      \A ka \in LeafKeys(a) : \A kb \in LeafKeys(pages[a].rightSibPageNo) : ka <= kb

\* C6: in every leaf the keys of the present entries are non-decreasing.
C6_SortedLeaves ==
  \A p \in LeafPages :
    LET es == LeafEntries(p)
    IN \A i \in 1 .. Len(es) - 1 : es[i].key <= es[i + 1].key

\* C6 witness: after a leaf split, a leaf holds a later-inserted entry in
\* front of an earlier-inserted entry with a greater key (entries were
\* shifted to keep the leaf sorted).
C6_Witness ==
  /\ rootPageNum # initialRootPageNum
  /\ \E p \in LeafPages :
       LET es == LeafEntries(p)
       IN Len(es) = 2 /\ es[1].key < es[2].key /\ es[1].rid > es[2].rid

\* C7: a key inserted m times with m distinct RIDs is returned m times,
\* with those RIDs, by the scan (GTE k, LTE k).
C7_Duplicates ==
  (ScanCompleted /\ lowOp = "GTE" /\ highOp = "LTE" /\ lowValInt = highValInt) =>
    /\ {e.rid : e \in Range(emitted)} = {e.rid : e \in {x \in inserted : x.key = lowValInt}}
    /\ Len(emitted) = Cardinality({x \in inserted : x.key = lowValInt})

\* C8: startScan with valid operators and low <= high fails with
\* NoSuchKeyFound exactly when no inserted entry satisfies both bounds;
\* otherwise it succeeds and a scan is active.
C8_NoSuchKeyIff ==
  (lastCall.op = "startScan" /\ lastCall.res \notin {"BadOpcodes", "BadScanrange"}) =>
    IF Qualifying = {} THEN lastCall.res = "NoSuchKeyFound"
    ELSE lastCall.res = "ok" /\ scanExecuting

\* C9: the keys emitted by the successive scanNext calls of one scan are
\* non-decreasing.
C9_Ascending ==
  \A i \in 1 .. Len(emitted) - 1 : emitted[i].key <= emitted[i + 1].key

\* C10: an insertEntry call that returns leaves the pin count of every
\* page as it found it (a page it allocated is left unpinned) and unpins no
\* page that is not pinned: every pin it took was released exactly once.
C10_PinBalance ==
  [][(inserted' # inserted /\ lastCall'.res = "ok") =>
       /\ \A p \in DOMAIN pinCnt' :
            pinCnt'[p] = (IF p \in DOMAIN pinCnt THEN pinCnt[p] ELSE 0)
       /\ badUnpin' = badUnpin]_vars

\* C10 witness: an insertEntry has returned after an internal node split
\* and the root was replaced twice (leaf root, then internal root).
C10_Witness ==
  /\ lastCall = [op |-> "insertEntry", res |-> "ok"]
  /\ InternalSplitDone
  /\ pages[rootPageNum].level = 0

\* C11: no scan call unpins a page the index holds no pin on, and after
\* endScan has returned the index holds no pin at all.
C11_ScanPins ==
  lastCall.op \in {"startScan", "scanNext", "endScan"} =>
    /\ ~badUnpin
    /\ lastCall = [op |-> "endScan", res |-> "ok"] =>
         \A p \in DOMAIN pinCnt : pinCnt[p] = 0
\* The range scans: valid operators and low <= high.
ScanQueries ==
  {q \in [low : Keys, lowOp : LowOps, high : Keys, highOp : HighOps] :
     q.low <= q.high}

\* What startScan(q) does on the index as it is: the error it ends with or
\* the entry the scan starts at.  Together with the pages this determines
\* everything scanNext returns.
StartOutcome(q) ==
  LET r == startScan(Machine, q)
  IN [err |-> r.m.err, found |-> r.found,
      cur |-> IF r.found THEN r.cur ELSE 0, i |-> IF r.found THEN r.i ELSE 0]

\* C12: after the index was closed and opened again, every range scan
\* gives what it gave before the index was closed.
C12_Reopen ==
  [][(file = "deleted" /\ file' = "open") =>
       \A q \in ScanQueries : StartOutcome(q)' = StartOutcome(q)]_vars
\* Page p is a node of the tree that no internal node lists as a child; it
\* is a leaf exactly when it is the first root page.
IsActualRoot(p) ==
  /\ p \in DOMAIN pages
  /\ (pages[p].kind = "leaf") <=> (p = headerPageNum + 1)
  /\ \A n \in DOMAIN pages :
       pages[n].kind = "nonleaf" =>
         \A j \in 0 .. nodeOccupancy : pages[n].pageNoArray[j] # p

\* C13: after every public call the root page number in the meta page
\* equals rootPageNum, and the page they name is the root of the tree.
C13_MetaTruth ==
  /\ metaRootPageNo = rootPageNum
  /\ IsActualRoot(rootPageNum)

\* C13 witness: the root has been replaced and a scan has returned an entry.
C13_Witness ==
  /\ rootPageNum # headerPageNum + 1
  /\ lastCall = [op |-> "scanNext", res |-> "ok"]
C15_Validation ==
  [][lastCall'.op = "startScan" =>
       /\ lastCall'.res # "BadOpcodes" =>
            /\ lowOp' \in LowOps /\ highOp' \in HighOps
            /\ (lastCall'.res = "BadScanrange") <=> (lowValInt' > highValInt')
       /\ lastCall'.res \in {"BadOpcodes", "BadScanrange"} =>
            /\ ~scanExecuting'
            /\ \A p \in DOMAIN pinCnt : pinCnt'[p] <= pinCnt[p]]_vars

\* C15 witness: on an index with an internal root a startScan with valid
\* operators and low > high has failed with BadScanrange.
C15_Witness ==
  /\ lastCall = [op |-> "startScan", res |-> "BadScanrange"]
  /\ lowValInt > highValInt
  /\ rootPageNum # headerPageNum + 1
\* The state left by a startScan that was called with operators GT and LT
\* and equal bounds (the cursor holds the arguments of a call that passed
\* the operator test).
EmptyOpenRangeCall ==
  /\ lastCall.op = "startScan" /\ lastCall.res # "BadOpcodes"
  /\ lowOp = "GT" /\ highOp = "LT" /\ lowValInt = highValInt

\* C16 (as stated): startScan with low equal to high and operators GT and
\* LT fails with BadScanrange on any tree.
C16_EqualBoundsRejected ==
  EmptyOpenRangeCall => lastCall.res = "BadScanrange"

\* C16 (amended): startScan with low equal to high and operators GT and LT
\* passes the range test (low > high is false), so it never fails with
\* BadScanrange; it fails all the same, as no key lies strictly between the
\* bounds (with NoSuchKeyFound, or with the error of a page read on a tree
\* that a split has damaged), and starts no scan.
C16_EqualBoundsNoSuchKey ==
  EmptyOpenRangeCall =>
    /\ lastCall.res \notin {"BadScanrange", "ok"}
    /\ ~scanExecuting

\* C16 witness: on an index with an internal root, startScan(GT v, LT v)
\* has ended with NoSuchKeyFound.
C16_Witness ==
  /\ EmptyOpenRangeCall
  /\ lastCall.res = "NoSuchKeyFound"
  /\ rootPageNum # headerPageNum + 1
\* C17: scanNext and endScan called when no scan is active fail with
\* ScanNotInitialized and change neither the scan cursor nor any pin count;
\* in particular an endScan that follows an endScan fails so.
C17_NotInitialized ==
  [][(~scanExecuting /\ lastCall'.op \in {"scanNext", "endScan"}) =>
       /\ lastCall'.res = "ScanNotInitialized"
       /\ UNCHANGED <<scanVars, pinCnt, badUnpin>>]_vars

\* C17 witness: a scan has returned entries and has been ended, and the
\* endScan that followed has failed with ScanNotInitialized.
C17_Witness ==
  /\ lastCall = [op |-> "endScan", res |-> "ScanNotInitialized"]
  /\ emitted # <<>>
  /\ ~scanExecuting
  /\ \A p \in DOMAIN pinCnt : pinCnt[p] = 0
\* C18: destroying the index while a scan is active ends the scan and
\* releases the pin on the leaf of the scan, so that no page of the index
\* file is left pinned by the scan.
C18_CloseEndsScan ==
  [][(scanExecuting /\ pinCnt[currentPageNum] > 0 /\ lastCall'.op = "close") =>
       /\ ~scanExecuting'
       /\ pinCnt'[currentPageNum] = pinCnt[currentPageNum] - 1]_vars
\* C19: checkKey(low, lowOp, high, highOp, k) is true exactly when k is
\* above the lower bound (k > low for GT, k >= low for GTE) and below the
\* upper bound (k < high for LT, k <= high for LTE), up to both ends of the
\* range of int.
C19_CheckKey ==
  probe.fn = "checkKey" =>
    (probe.result <=>
       /\ IF lowOp = "GT" THEN probe.key > lowValInt ELSE probe.key >= lowValInt
       /\ IF highOp = "LT" THEN probe.key < highValInt ELSE probe.key <= highValInt)

\* C19 witness: the key equals both bounds at the largest int; GT excludes
\* it although LTE includes it.
C19_Witness ==
  /\ probe = [fn |-> "checkKey", key |-> INT_MAX, result |-> FALSE]
  /\ lowValInt = INT_MAX /\ lowOp = "GT"
  /\ highValInt = INT_MAX /\ highOp = "LTE"
\* C20: when the create path of the constructor returns or fails, it has
\* called insertEntry once for every tuple of the base relation and has
\* ended with flushFile (no error has left the loop), and the leaves of the
\* index hold exactly one entry per tuple of the base relation.
C20_BulkLoad ==
  lastCall.op = "create" =>
    /\ lastCall.res = "ok"
    /\ inserted = RelationTuples
    /\ Len(ChainEntries) = Len(relation)
    /\ Range(ChainEntries) = RelationTuples
\* The keys 10, 20, 30, 40, 50, 60 have been inserted in that order into the
\* index with leaves of five entries.
InsertedTenToSixty ==
  /\ leafOccupancy = 5 /\ nodeOccupancy = 4
  /\ inserted = {[key |-> 10 * i, rid |-> i] : i \in 1 .. 6}

\* The keys of the present entries of leaf p, in slot order.
LeafKeySeq(p) == [i \in 1 .. Len(LeafEntries(p)) |-> LeafEntries(p)[i].key]

\* The root is an internal node of level 1 with the single separator sep
\* between two leaves that hold the keys left and right.
RootOverTwoLeaves(sep, left, right) ==
  /\ pages[rootPageNum].kind = "nonleaf"
  /\ pages[rootPageNum].level = 1
  /\ pages[rootPageNum].keyArray[0] = sep
  /\ pages[rootPageNum].pageNoArray[0] = initialRootPageNum
  /\ pages[rootPageNum].pageNoArray[1] \in LeafPages
  /\ \A j \in 2 .. nodeOccupancy : pages[rootPageNum].pageNoArray[j] = 0
  /\ LeafKeySeq(pages[rootPageNum].pageNoArray[0]) = left
  /\ LeafKeySeq(pages[rootPageNum].pageNoArray[1]) = right

\* C21 (as stated): with L = 5 and N = 4, inserting 10, 20, 30, 40, 50, 60
\* leaves an internal root of level 1 with the separator 30 over the leaves
\* [10, 20] and [30, 40, 50, 60].
C21_SeparatorThirty ==
  InsertedTenToSixty => RootOverTwoLeaves(30, <<10, 20>>, <<30, 40, 50, 60>>)

\* C21 (amended): with L = 5 and N = 4, inserting 10, 20, 30, 40, 50, 60
\* leaves an internal root of level 1 with the separator 40 over the leaves
\* [10, 20, 30] and [40, 50, 60].
C21_SeparatorForty ==
  InsertedTenToSixty => RootOverTwoLeaves(40, <<10, 20, 30>>, <<40, 50, 60>>)

\* C21 witness: the six keys were inserted in that order and the root leaf
\* has split.
C21_Witness ==
  /\ InsertedTenToSixty
  /\ rootPageNum # initialRootPageNum
  /\ lastCall = [op |-> "insertEntry", res |-> "ok"]
\* C22: in every leaf of the chain and in every internal node reachable from
\* the root the present slots form a prefix: no slot with RecordId
\* page_number 0 (leaf) or child PageId 0 (internal node) is followed by a
\* present slot.
C22_PrefixSlots ==
  /\ \A p \in Range(LeafChain) : \A i \in 0 .. leafOccupancy - 2 :
       pages[p].ridArray[i] = 0 => pages[p].ridArray[i + 1] = 0
  /\ \A p \in ReachableInternal : \A j \in 0 .. nodeOccupancy - 1 :
       pages[p].pageNoArray[j] = 0 => pages[p].pageNoArray[j + 1] = 0
\* C23: once the root has been replaced, rootPageNum never again equals
\* initialRootPageNum and the root is an internal node; initialRootPageNum
\* never changes.
C23_RootStaysInternal ==
  [][/\ initialRootPageNum' = initialRootPageNum
     /\ rootPageNum # initialRootPageNum =>
          /\ rootPageNum' # initialRootPageNum'
          /\ pages'[rootPageNum'].kind = "nonleaf"]_vars
\* The children present in an internal node, and its keys next to a present
\* right child.
Children(node) ==
  {node.pageNoArray[j] : j \in 0 .. nodeOccupancy} \ {0}

\* C24: after splitNonLeafNode the left child of the key that moved up (the
\* child at pageNoArray[moveUpIndex] before the split) is still a present
\* child of the old node.
C24_LeftChildStays ==
  probe.fn = "splitNonLeafNode" =>
    probe.old0.pageNoArray[MoveUpIndex(probe.old0, probe.newEntry)]
      \in Children(probe.oldNode)
\* The children of an internal node in slot order, absent slots left out,
\* and its keys that stand next to a present right child.
RECURSIVE ChildSeqFrom(_, _)
ChildSeqFrom(node, j) ==
  IF j > nodeOccupancy THEN <<>>
  ELSE (IF node.pageNoArray[j] # 0 THEN <<node.pageNoArray[j]>> ELSE <<>>)
         \o ChildSeqFrom(node, j + 1)

RECURSIVE KeySeqFrom(_, _)
KeySeqFrom(node, i) ==
  IF i >= nodeOccupancy THEN <<>>
  ELSE (IF node.pageNoArray[i + 1] # 0 THEN <<node.keyArray[i]>> ELSE <<>>)
         \o KeySeqFrom(node, i + 1)

\* Number of places of sequence seq that hold x.
Count(seq, x) == Cardinality({i \in 1 .. Len(seq) : seq[i] = x})

\* The place of an incoming key among the keys of a full node: behind the
\* keys that are not greater.
PlaceOf(node, key) ==
  Cardinality({i \in 0 .. nodeOccupancy - 1 : node.keyArray[i] <= key})

\* C25: splitNonLeafNode conserves children and keys: every child of the
\* full node and the incoming child is a child of exactly one of the two
\* nodes, every key but the one that moved up, and the incoming key, is a
\* key of exactly one of them, and children and keys keep their order (the
\* children of the old node followed by those of the new node are the
\* former children with the incoming child behind the place of its key).
C25_SplitConserves ==
  probe.fn = "splitNonLeafNode" =>
    LET oldC == ChildSeqFrom(probe.oldNode, 0)
        newC == ChildSeqFrom(probe.newNode, 0)
        oldK == KeySeqFrom(probe.oldNode, 0)
        newK == KeySeqFrom(probe.newNode, 0)
        c0 == ChildSeqFrom(probe.old0, 0)
        k0 == KeySeqFrom(probe.old0, 0)
        at == PlaceOf(probe.old0, probe.newEntry.key)
        allC == SubSeq(c0, 1, at + 1) \o <<probe.newEntry.pageNo>>
                  \o SubSeq(c0, at + 2, Len(c0))
        allK == SubSeq(k0, 1, at) \o <<probe.newEntry.key>>
                  \o SubSeq(k0, at + 1, Len(k0))
    IN /\ \A c \in Range(allC) : Count(oldC \o newC, c) = 1
       /\ \A k \in NodeKeys :
            Count(oldK \o <<probe.moveUpKey>> \o newK, k) = Count(allK, k)
       /\ oldC \o newC = allC
       /\ oldK \o <<probe.moveUpKey>> \o newK = allK

\* C26: findNextNonLeafNode, given a key equal to a present separator
\* keyArray[i], returns the right child pageNoArray[i + 1] of a separator
\* equal to the key.
C26_EqualGoesRight ==
  (/\ probe.fn = "findNextNonLeafNode"
   /\ \E i \in 0 .. probe.n - 1 : probe.curNode.keyArray[i] = probe.key) =>
    \E i \in 0 .. probe.n - 1 :
      /\ probe.curNode.keyArray[i] = probe.key
      /\ probe.nextNodeNum = probe.curNode.pageNoArray[i + 1]

\* C27: whenever startScan succeeds, the current leaf is pinned and
\* nextEntry is the slot of a present entry whose key satisfies both bounds,
\* the first such entry in leaf-chain order; no free slot is taken for an
\* entry.
C27_StartsOnEntry ==
  lastCall = [op |-> "startScan", res |-> "ok"] =>
    /\ currentPageNum \in LeafPages
    /\ pinCnt[currentPageNum] >= 1
    /\ nextEntry \in 0 .. leafOccupancy - 1
    /\ pages[currentPageNum].ridArray[nextEntry] # 0
    /\ Satisfies(pages[currentPageNum].keyArray[nextEntry])
    /\ \E i \in 1 .. Len(ChainEntries) :
         /\ ChainEntries[i].rid = pages[currentPageNum].ridArray[nextEntry]
         /\ \A j \in 1 .. i - 1 : ~Satisfies(ChainEntries[j].key)

\* The keys of a sequence of entries are non-decreasing.
SortedEntries(es) == \A i \in 1 .. Len(es) - 1 : es[i].key <= es[i + 1].key

\* C28: splitLeafNode on a full leaf distributes the leafOccupancy entries
\* and the new one over the old and the new leaf, nothing lost and nothing
\* duplicated; both leaves are sorted and non-empty and every key of the old
\* leaf is <= every key of the new leaf; when leafOccupancy is odd and the
\* new key is greater than keyArray[leafOccupancy / 2], the new entry is in
\* the new leaf.
C28_LeafSplitDistributes ==
  probe.fn = "splitLeafNode" =>
    LET oldE == EntriesFrom(probe.leaf, 0)
        newE == EntriesFrom(probe.newLeafNode, 0)
        all0 == EntriesFrom(probe.leaf0, 0)
    IN /\ Len(oldE) + Len(newE) = leafOccupancy + 1
       /\ Range(oldE) \cup Range(newE) = Range(all0) \cup {probe.dataEntry}
       /\ Range(oldE) \cap Range(newE) = {}
       /\ SortedEntries(oldE) /\ SortedEntries(newE)
       /\ oldE # <<>> /\ newE # <<>>
       /\ \A a \in Range(oldE) : \A b \in Range(newE) : a.key <= b.key
       /\ (/\ leafOccupancy % 2 = 1
           /\ probe.dataEntry.key > probe.leaf0.keyArray[leafOccupancy \div 2]) =>
            probe.dataEntry \in Range(newE)

\* C28 witness: a full leaf of odd capacity was split with a new key
\* greater than the middle key but smaller than the last key; the new entry
\* stands in the new leaf in front of an entry that was moved.
C28_Witness ==
  /\ probe.fn = "splitLeafNode"
  /\ leafOccupancy % 2 = 1
  /\ probe.dataEntry.key > probe.leaf0.keyArray[leafOccupancy \div 2]
  /\ probe.dataEntry.key < probe.leaf0.keyArray[leafOccupancy - 1]
  /\ probe.newLeafNode.ridArray[0] = probe.dataEntry.rid
  /\ probe.newLeafNode.ridArray[1] = leafOccupancy

\* C29: after splitLeafNode the right sibling of the new leaf is the former
\* right sibling of the old leaf and the right sibling of the old leaf is
\* the new leaf, and the separator handed to the parent is the smallest key
\* of the new leaf, which stays in the leaf.  Stated for the insertEntry
\* calls that split a leaf and no internal node: the new leaf is linked
\* behind the leaf that was split, and an internal node holds it as the
\* right child of a key equal to its first key.
C29_LeafSplitLinks ==
  [][\A p \in DOMAIN pages' \ DOMAIN pages :
       (/\ pages'[p].kind = "leaf"
        /\ Cardinality({q \in DOMAIN pages' \ DOMAIN pages :
                          pages'[q].kind = "nonleaf"})
             = (IF rootPageNum = initialRootPageNum THEN 1 ELSE 0)) =>
         /\ \E a \in LeafPages :
              /\ pages'[a].rightSibPageNo = p
              /\ pages'[p].rightSibPageNo = pages[a].rightSibPageNo
         /\ pages'[p].ridArray[0] # 0
         /\ \E q \in DOMAIN pages', i \in 0 .. nodeOccupancy - 1 :
              /\ pages'[q].kind = "nonleaf"
              /\ pages'[q].pageNoArray[i + 1] = p
              /\ pages'[q].keyArray[i] = pages'[p].keyArray[0]]_vars

\* C30: insertLeafNode on a leaf that is not full leaves the leaf sorted,
\* with the former entries in their former order and the new entry behind
\* every entry whose key is not greater, in the first slots of the leaf; on
\* an empty leaf the entry is in slot 0.
C30_InsertLeafStable ==
  probe.fn = "insertLeafNode" =>
    LET was == EntriesFrom(probe.leaf0, 0)
        now == EntriesFrom(probe.leaf, 0)
        at == Cardinality({i \in 1 .. Len(was) : was[i].key <= probe.entry.key})
    IN /\ now = SubSeq(was, 1, at) \o <<probe.entry>>
                  \o SubSeq(was, at + 1, Len(was))
       /\ SortedEntries(now)
       /\ \A i \in 0 .. leafOccupancy - 1 :
            probe.leaf.ridArray[i] # 0 <=> i <= probe.n
       /\ probe.n = 0 => /\ probe.leaf.keyArray[0] = probe.entry.key
                         /\ probe.leaf.ridArray[0] = probe.entry.rid

\* C30 witness: the new entry was placed behind an entry with the same key
\* and in front of an entry with a greater key, which was shifted.
C30_Witness ==
  /\ probe.fn = "insertLeafNode"
  /\ probe.n = 2
  /\ probe.leaf0.keyArray[0] = probe.entry.key
  /\ probe.leaf0.keyArray[1] > probe.entry.key
  /\ probe.leaf.ridArray[1] = probe.entry.rid
  /\ probe.leaf.ridArray[2] = 2

\* The keys a split of the full internal node can move up: the key at
\* nodeOccupancy / 2, or the one in front of it when nodeOccupancy is even.
MoveUpKeys(node) ==
  {node.keyArray[nodeOccupancy \div 2]} \cup
    (IF nodeOccupancy % 2 = 0 THEN {node.keyArray[nodeOccupancy \div 2 - 1]}
     ELSE {})

RECURSIVE LeafDepths(_, _, _)
LeafDepths(p, d, n) ==
  IF p \notin DOMAIN pages \/ n = 0 THEN {}
  ELSE IF pages[p].kind = "leaf" THEN {d}
  ELSE UNION {LeafDepths(pages[p].pageNoArray[j], d + 1, n - 1) :
                j \in 0 .. nodeOccupancy}

\* C32: after any sequence of insertEntry calls every internal node has
\* level 1 exactly when its children are leaves and level 0 exactly when
\* they are internal nodes; all leaves are at the same depth, and no call
\* has taken a page for the wrong node variant.
C32_Levels ==
  /\ \A p \in ReachableInternal :
       /\ pages[p].level \in {0, 1}
       /\ \A j \in 0 .. nodeOccupancy :
            pages[p].pageNoArray[j] # 0 =>
              /\ pages[p].pageNoArray[j] \in DOMAIN pages
              /\ (pages[p].level = 1) =
                   (pages[pages[p].pageNoArray[j]].kind = "leaf")
  /\ Cardinality(LeafDepths(rootPageNum, 0, numPages)) <= 1
  /\ lastCall.res # "TypeConfusion"

\* C32 witness: an internal node made by splitNonLeafNode (the right child
\* of a root of level 0) has level 1 and a leaf as child.
C32_Witness ==
  /\ pages[rootPageNum].kind = "nonleaf"
  /\ pages[rootPageNum].level = 0
  /\ LET r == pages[rootPageNum].pageNoArray[1]
     IN /\ r \in DOMAIN pages
        /\ pages[r].kind = "nonleaf"
        /\ pages[r].level = 1
        /\ \E j \in 0 .. nodeOccupancy :
             /\ pages[r].pageNoArray[j] \in DOMAIN pages
             /\ pages[pages[r].pageNoArray[j]].kind = "leaf"

\* C33: every page whose contents a call modifies (a page it allocated, a
\* page whose words changed, the meta page when its rootPageNo changed) is
\* unpinned with dirty = true; an internal node that insertEntry unpins
\* dirty was changed or took the entry of a child that was split; the scan
\* calls change no page and unpin nothing dirty.
C33_DirtyDiscipline ==
  [][LET Modified ==
           {p \in DOMAIN pages' : p \notin DOMAIN pages \/ pages'[p] # pages[p]}
             \cup (IF metaRootPageNo' # metaRootPageNo THEN {headerPageNum}
                   ELSE {})
     IN /\ Modified \subseteq dirtied'
        /\ lastCall'.op = "insertEntry" =>
             \A p \in dirtied' \cap DOMAIN pages :
               pages[p].kind = "nonleaf" =>
                 \/ pages'[p] # pages[p]
                 \/ /\ numPages' > numPages
                    /\ \E j \in 0 .. nodeOccupancy :
                         pages[p].pageNoArray[j] \in dirtied'
        /\ lastCall'.op \in {"startScan", "scanNext", "endScan"} =>
             pages' = pages /\ dirtied' = {}]_vars

\* C33 witness: an insertEntry call went through an internal root that took
\* no entry: the leaf it changed is dirty and the root is not.
C33_Witness ==
  /\ lastCall = [op |-> "insertEntry", res |-> "ok"]
  /\ pages[rootPageNum].kind = "nonleaf"
  /\ rootPageNum \notin dirtied
  /\ \E p \in dirtied : p \in LeafPages

\* C34: when startScan fails with NoSuchKeyFound, every page it pinned has
\* been unpinned exactly once: the pin counts are those left by the end of
\* the previous scan, if one was active, no page was unpinned that was not
\* pinned, and no scan is active.
C34_FailedStartReleases ==
  [][lastCall' = [op |-> "startScan", res |-> "NoSuchKeyFound"] =>
       /\ pinCnt' = EndPrevious(Machine).pinCnt
       /\ badUnpin' = EndPrevious(Machine).badUnpin
       /\ ~scanExecuting']_vars

\* C34 witness: a startScan went down an internal root, walked from a leaf
\* to its right sibling and failed there with NoSuchKeyFound; no page is
\* pinned.
C34_Witness ==
  /\ lastCall = [op |-> "startScan", res |-> "NoSuchKeyFound"]
  /\ rootPageNum # initialRootPageNum
  /\ currentPageNum \in LeafPages
  /\ \E a \in LeafPages : pages[a].rightSibPageNo = currentPageNum
  /\ \A p \in DOMAIN pinCnt : pinCnt[p] = 0

\* C35: when the constructor fails with BadIndexInfo on an existing index
\* file, the pin it took on the meta page has been released: the pin count
\* of the meta page is what it was before the call.
C35_BadInfoReleasesMeta ==
  [][lastCall' = [op |-> "open", res |-> "BadIndexInfo"] =>
       pinCnt'[headerPageNum] = pinCnt[headerPageNum]]_vars

\* C36: splitNonLeafNode writes keyArray only at indices 0..nodeOccupancy-1
\* and pageNoArray only at indices 0..nodeOccupancy while it moves and
\* clears entries, for every capacity and every incoming key; the first
\* child slot of the old node is not touched by a write to a key.
C36_SplitWithinArrays ==
  probe.fn = "splitNonLeafNode" =>
    /\ KeySlotsCleared(probe.old0, probe.newEntry)
         \subseteq 0 .. nodeOccupancy - 1
    /\ PageSlotsCleared(probe.old0, probe.newEntry) \subseteq 0 .. nodeOccupancy
    /\ 0 \notin PageSlotsCleared(probe.old0, probe.newEntry) =>
         probe.oldNode.pageNoArray[0] = probe.old0.pageNoArray[0]

\* C37: the behaviour of the index does not depend on the words the pages
\* returned by allocPage hold: after the same calls the index on a root page
\* that held any words has the shape (number of pages, root page, pages
\* reachable as leaves with their present entries) and the results of the
\* index on a zero-filled root page.
C37_FillIndependent ==
  (probe.fn = "zeroFilled" /\ lastCall.op = "insertEntry") =>
    /\ numPages = probe.m.numPages
    /\ rootPageNum = probe.m.rootPageNum
    /\ lastCall.res = probe.res
    /\ \A p \in LeafPages :
         /\ p \in DOMAIN probe.m.pages
         /\ LeafEntries(p) = EntriesFrom(probe.m.pages[p], 0)

\* C38: after splitLeafNode the numbers of entries of the old and the new
\* leaf differ by at most one: each holds at least (leafOccupancy + 1) / 2
\* entries, rounded down.
C38_LeafSplitBalanced ==
  probe.fn = "splitLeafNode" =>
    /\ Len(EntriesFrom(probe.leaf, 0)) >= (leafOccupancy + 1) \div 2
    /\ Len(EntriesFrom(probe.newLeafNode, 0)) >= (leafOccupancy + 1) \div 2

\* C39: when insertEntry is called between the scanNext calls of an active
\* scan, the scan emits no entry twice, and when it has run to
\* IndexScanCompleted it has emitted every entry in range that was in the
\* index when the scan started.
C39_ScanUnderInserts ==
  /\ \A i, j \in 1 .. Len(emitted) : emitted[i] = emitted[j] => i = j
  /\ (ScanCompleted /\ Added # {}) =>
       \A e \in inserted \ Added : Satisfies(e.key) => e \in Range(emitted)

\* The search of startScan, started at slot 0 of leaf p with the bounds q,
\* leaves p for its right sibling: no slot of p ends the search.
PassesThrough(p, q) ==
  \A i \in 0 .. leafOccupancy - 1 :
    LET keyValue == pages[p].keyArray[i]
    IN /\ ~(i = 0 /\ pages[p].ridArray[0] = 0)
       /\ ~checkKey(q.low, q.lowOp, q.high, q.highOp, keyValue)
       /\ ~(q.highOp = "LTE" /\ ~(keyValue <= q.high))
       /\ ~(q.highOp = "LT" /\ ~(keyValue < q.high))

\* The leaves the search of startScan reads, from leaf p on; n bounds the
\* walk.
RECURSIVE LeafVisits(_, _, _)
LeafVisits(p, q, n) ==
  IF p = 0 \/ n = 0 THEN <<>>
  ELSE <<p>> \o (IF PassesThrough(p, q)
                 THEN LeafVisits(pages[p].rightSibPageNo, q, n - 1)
                 ELSE <<>>)

NoRepeat(seq) == \A i, j \in 1 .. Len(seq) : seq[i] = seq[j] => i = j

\* C40: every scan terminates.  The chain of rightSibPageNo from any leaf
\* ends at 0 without meeting a leaf twice; the search of a startScan that
\* got past the descent, whichever leaf the descent reached, read no leaf
\* twice; and a scan on an index of M entries never has more than M
\* successful scanNext calls.
C40_ScansTerminate ==
  /\ \A p \in LeafPages : NoRepeat(ChainFrom(p, numPages))
  /\ (lastCall.op = "startScan" /\ lastCall.res \in {"ok", "NoSuchKeyFound"}) =>
       \A p \in LeafPages :
         NoRepeat(LeafVisits(p, [low |-> lowValInt, lowOp |-> lowOp,
                                 high |-> highValInt, highOp |-> highOp],
                             numPages))
  /\ Len(emitted) <= NumInserts

\* A scan over a chain of at least two leaves emitted every entry of the
\* index and ended with IndexScanCompleted at the end of the chain.
C40_Witness ==
  /\ ScanCompleted
  /\ Len(LeafChain) >= 2
  /\ NumInserts >= 3
  /\ Len(emitted) = NumInserts
  /\ pages[currentPageNum].rightSibPageNo = 0
====
